---- MODULE Spec2Model ----
(***************************************************************************)
(* Remote zx client (package rzx): the dial cache, the Dial / Redial /     *)
(* Close life cycle with its hangup watcher, and the streaming request     *)
(* envelopes (dircall, errcall, Get, Put, Find, FindGet).                  *)
(*                                                                         *)
(* Two state machines share this module:                                   *)
(*   SpecEnv - one envelope running on one call of an open mux, with the   *)
(*             mux side, the caller and the Put data producer as the       *)
(*             environment;                                                *)
(*   Spec    - handles, muxes, the dial cache, client threads running      *)
(*             Dial / Redial / Close, and the hangup watchers.             *)
(***************************************************************************)
EXTENDS Integers, Sequences, FiniteSets, TLC

\* ------------------------------------------------------------------ bounds
\* most messages the mux side delivers on one call's inbound half
MaxIn == 2
\* most chunks the producer sends on Put's data channel
MaxData == 2
\* most muxes net.MuxDial opens in all (a later MuxDial fails)
MaxMux == 2
\* most reply messages the server sends to one Ttrees request
MaxTreeMsgs == 1
\* concurrent client threads
NThreads == 2
\* most handles made by Fsys
MaxCopies == 1
\* longest address given to FillAddr, in symbols
MaxAddrLen == 7

VARIABLES
    op,         \* the operation the envelope was started for ("none" before)
    pc,         \* position of the envelope's background task
    cout,       \* c.Out: the call's outbound half (buf: what it accepted, in order)
    cin,        \* c.In: the call's inbound half (buf, closed, err)
    inHist,     \* messages the mux side has delivered on c.In, in order
    rc,         \* the caller-visible result channel (buf, closed, err, cap)
    got,        \* values the caller has received from rc, in order
    rcCloseLog, \* the reasons the envelope passed to close(rc, ...), in order
    dcCaller,   \* the data channel the caller passed to Put (or NoChan)
    dcHist,     \* chunks the producer has put on the data channel, in order
    dcLocal,    \* what Put's local variable dc denotes: "caller" or "fresh"
    dtype,      \* d["type"] of Put's directory entry
    held,       \* the message the task holds between receiving and forwarding
    lerr,       \* the task's local err
    hs,         \* the Fs structures: handle id -> fields
    mux,        \* mux id -> "none", "open" or "down"
    nmux,       \* muxes opened so far (net.MuxDial successes)
    cw,         \* close-wait channel id -> number of close calls on it
    dials,      \* the dial cache: raw address -> handle id (0: no entry)
    tpc,        \* client thread -> position
    th,         \* client thread -> locals of its running Dial / Redial
    res,        \* what the call that returned in the last step returned
    wpc,        \* hangup watcher (one per mux id) -> position
    wst,        \* hangup watcher -> the handle and closewc it captured
    est,        \* handle -> mux and auth its last successful Redial published
    returned,   \* handles a successful Dial or Fsys has returned to a caller
    crashed,    \* the program died (a nil mux was dereferenced, a map was raced)
    fa,         \* the last address completed and split: argument and results
    dlk,        \* the holder of dialslk (0: free): a thread or a watcher
    gt,         \* a getTrees call: fs.trees, its return and what Redial does
    au          \* an HTTP request, the auth state and what each wrapper did

envVars == <<op, pc, cout, cin, inHist, rc, got, rcCloseLog,
             dcCaller, dcHist, dcLocal, dtype, held, lerr>>

lifeVars == <<hs, mux, nmux, cw, dials, tpc, th, res,
              wpc, wst, est, returned, crashed>>

otherVars == <<fa, dlk, gt, au>>

vars == <<envVars, lifeVars, otherVars>>

\* ------------------------------------------------------------- messages
Msg(t, v) == [t |-> t, v |-> v, e |-> "nil"]
\* the zero value a receive yields on a closed, drained channel
NilMsg == Msg("nil", 0)
\* an error value sent as a message (errcall's rc <- err)
ErrMsg(e) == [t |-> "error", v |-> 0, e |-> e]
\* the request message of an operation
ReqMsg(o) == Msg(o, 0)

\* what the server side may put on an inbound half
InMsgs == {Msg("dir", 1), Msg("dir", 2), Msg("bytes", 1), Msg("bytes", 2), Msg("str", 1)}
\* what a producer may put on Put's data channel
DataMsgs == {Msg("bytes", 1), Msg("bytes", 2)}

ErrBadMsg == "ErrBadMsg"
\* terminal errors of the inbound half: none, transport failure, server error
InErrs == {"nil", "i/o error", "server error"}

IsDir(m) == m.t = "dir"

\* ------------------------------------------------------------- channels
\* Channels of the Clive dialect: close takes a reason, closing a closed
\* channel changes nothing, cerror reads the reason, and a send on a closed
\* channel reports false.
NoChan == [buf |-> <<>>, closed |-> FALSE, err |-> "nil", cap |-> -1]
NewChan(cap) == [buf |-> <<>>, closed |-> FALSE, err |-> "nil", cap |-> cap]
ClosedChan == [buf |-> <<>>, closed |-> TRUE, err |-> "nil", cap |-> 0]
ChClose(ch, e) == IF ch.closed THEN ch ELSE [ch EXCEPT !.closed = TRUE, !.err = e]
cerror(ch) == IF ch.closed THEN ch.err ELSE "nil"
\* a receive can complete: a message is buffered or the channel is closed
CanRecv(ch) == ch.buf # <<>> \/ ch.closed
RecvOk(ch) == ch.buf # <<>>
RecvMsg(ch) == IF ch.buf # <<>> THEN Head(ch.buf) ELSE NilMsg
AfterRecv(ch) == IF ch.buf # <<>> THEN [ch EXCEPT !.buf = Tail(@)] ELSE ch
\* a send on a buffered channel can complete: closed (reports false) or room
CanSend(ch) == ch.closed \/ Len(ch.buf) < ch.cap
SendOk(ch) == ~ch.closed
AfterSend(ch, m) == IF ch.closed THEN ch ELSE [ch EXCEPT !.buf = Append(@, m)]

\* ------------------------------------------------------------ envelopes
EnvInit ==
    /\ op = "none"
    /\ pc = "idle"
    /\ cout = NewChan(0)
    /\ cin = NewChan(0)
    /\ inHist = <<>>
    /\ rc = NoChan
    /\ got = <<>>
    /\ rcCloseLog = <<>>
    /\ dcCaller = NoChan
    /\ dcHist = <<>>
    /\ dcLocal = "caller"
    /\ dtype = "-"
    /\ held = NilMsg
    /\ lerr = "nil"

\* The caller's half of an operation: make the result channel, start the
\* background task, which allocates its call (c := fs.m.Rpc()).
StartEnv(o, cap, first) ==
    /\ pc = "idle"
    /\ op' = o
    /\ rc' = NewChan(cap)
    /\ pc' = first
    /\ UNCHANGED <<lifeVars, otherVars, cout, cin, inHist, got, rcCloseLog, dcCaller, dcHist,
                   dcLocal, dtype, held, lerr>>

\* Stat with rc := make(chan zx.Dir): no room for the result
StatUnbuffered == StartEnv("Tstat", 0, "dircall.send")
Stat == StartEnv("Tstat", 1, "dircall.send")
Wstat == StartEnv("Twstat", 1, "dircall.send")
Remove == StartEnv("Tremove", 1, "errcall.send")
RemoveAll == StartEnv("Tremoveall", 1, "errcall.send")
Move == StartEnv("Tmove", 1, "errcall.send")
Link == StartEnv("Tlink", 1, "errcall.send")
Get == StartEnv("Tget", 1, "get.send")
Find == StartEnv("Tfind", 0, "find.send")
FindGet == StartEnv("Tfindget", 0, "findget.send")

Put ==
    /\ pc = "idle"
    /\ op' = "Tput"
    /\ rc' = NewChan(1)
    /\ \E ty \in {"d", "-"}, hasdc \in BOOLEAN :
          /\ dtype' = ty
          /\ dcCaller' = IF hasdc THEN NewChan(1) ELSE NoChan
    /\ pc' = "put.send"
    /\ UNCHANGED <<lifeVars, otherVars, cout, cin, inHist, got, rcCloseLog, dcHist, dcLocal, held, lerr>>

\* SendRequest without the close(c.In, err) of the rejected send
SendRequestNoClose(here, next) ==
    /\ pc = here
    /\ IF SendOk(cout)
       THEN /\ cout' = ChClose(AfterSend(cout, ReqMsg(op)), "nil")
            /\ pc' = next
       ELSE /\ pc' = "done"
            /\ cout' = cout
    /\ UNCHANGED <<lifeVars, otherVars, op, cin, inHist, rc, got, rcCloseLog, dcCaller,
                   dcHist, dcLocal, dtype, held, lerr>>

\* if ok := c.Out <- m; !ok { err := cerror(c.Out); close(c.In, err); return }
\* close(c.Out)
\* The shape every unary-request envelope starts with; next is where the
\* task goes once the request is out.
SendRequest(here, next) ==
    /\ pc = here
    /\ IF SendOk(cout)
       THEN /\ cout' = ChClose(AfterSend(cout, ReqMsg(op)), "nil")
            /\ pc' = next
            /\ cin' = cin
       ELSE /\ cin' = ChClose(cin, cerror(cout))
            /\ pc' = "done"
            /\ cout' = cout
    /\ UNCHANGED <<lifeVars, otherVars, op, inHist, rc, got, rcCloseLog, dcCaller, dcHist, dcLocal,
                   dtype, held, lerr>>

\* m := <-c.In; err := cerror(c.In)
RecvOne(here, next) ==
    /\ pc = here
    /\ CanRecv(cin)
    /\ held' = RecvMsg(cin)
    /\ cin' = AfterRecv(cin)
    /\ lerr' = cerror(cin)
    /\ pc' = next
    /\ UNCHANGED <<lifeVars, otherVars, op, cout, inHist, rc, got, rcCloseLog, dcCaller, dcHist,
                   dcLocal, dtype>>

\* ReplyDir without the err == nil test: a directory entry that came with an
\* error is published all the same
ReplyDirAlways(here) ==
    /\ pc = here
    /\ LET publish == IsDir(held)
           err == IF lerr = "nil" /\ ~IsDir(held) THEN ErrBadMsg ELSE lerr
       IN /\ publish => CanSend(rc)
          /\ rc' = ChClose(IF publish THEN AfterSend(rc, held) ELSE rc, err)
          /\ rcCloseLog' = Append(rcCloseLog, err)
          /\ cin' = ChClose(cin, err)
          /\ lerr' = err
    /\ pc' = "done"
    /\ UNCHANGED <<lifeVars, otherVars, op, cout, inHist, got, dcCaller, dcHist, dcLocal, dtype, held>>

\* ReplyDir without err = ErrBadMsg: a reply of another type closes rc and
\* c.In with the nil error that was read
ReplyDirNoBadMsg(here) ==
    /\ pc = here
    /\ LET publish == lerr = "nil" /\ IsDir(held)
       IN /\ publish => CanSend(rc)
          /\ rc' = ChClose(IF publish THEN AfterSend(rc, held) ELSE rc, lerr)
          /\ rcCloseLog' = Append(rcCloseLog, lerr)
          /\ cin' = ChClose(cin, lerr)
          /\ lerr' = lerr
    /\ pc' = "done"
    /\ UNCHANGED <<lifeVars, otherVars, op, cout, inHist, got, dcCaller, dcHist, dcLocal, dtype, held>>

\* The tail of dircall and of Put: publish a directory entry or turn the
\* reply into ErrBadMsg, then close rc and c.In with err.
ReplyDir(here) ==
    /\ pc = here
    /\ LET publish == lerr = "nil" /\ IsDir(held)
           err == IF lerr = "nil" /\ ~IsDir(held) THEN ErrBadMsg ELSE lerr
       IN /\ publish => CanSend(rc)
          /\ rc' = ChClose(IF publish THEN AfterSend(rc, held) ELSE rc, err)
          /\ rcCloseLog' = Append(rcCloseLog, err)
          /\ cin' = ChClose(cin, err)
          /\ lerr' = err
    /\ pc' = "done"
    /\ UNCHANGED <<lifeVars, otherVars, op, cout, inHist, got, dcCaller, dcHist, dcLocal, dtype, held>>

DircallSend == SendRequest("dircall.send", "dircall.recv")
DircallRecv == RecvOne("dircall.recv", "dircall.reply")
DircallReply == ReplyDir("dircall.reply")

ErrcallSend == SendRequest("errcall.send", "errcall.recv")

\* <-c.In; err := cerror(c.In)
ErrcallRecv ==
    /\ pc = "errcall.recv"
    /\ CanRecv(cin)
    /\ lerr' = cerror(cin)
    /\ cin' = AfterRecv(cin)
    /\ pc' = "errcall.reply"
    /\ UNCHANGED <<lifeVars, otherVars, op, cout, inHist, rc, got, rcCloseLog, dcCaller, dcHist,
                   dcLocal, dtype, held>>

\* ErrcallReply with a plain close(rc): the error is sent but is not the
\* close reason
ErrcallReplyPlainClose ==
    /\ pc = "errcall.reply"
    /\ CanSend(rc)
    /\ cin' = ChClose(cin, lerr)
    /\ rc' = ChClose(AfterSend(rc, ErrMsg(lerr)), "nil")
    /\ rcCloseLog' = Append(rcCloseLog, "nil")
    /\ pc' = "done"
    /\ UNCHANGED <<lifeVars, otherVars, op, cout, inHist, got, dcCaller, dcHist, dcLocal,
                   dtype, held, lerr>>

\* close(c.In, err); rc <- err; close(rc, err)
ErrcallReply ==
    /\ pc = "errcall.reply"
    /\ CanSend(rc)
    /\ cin' = ChClose(cin, lerr)
    /\ rc' = ChClose(AfterSend(rc, ErrMsg(lerr)), lerr)
    /\ rcCloseLog' = Append(rcCloseLog, lerr)
    /\ pc' = "done"
    /\ UNCHANGED <<lifeVars, otherVars, op, cout, inHist, got, dcCaller, dcHist, dcLocal,
                   dtype, held, lerr>>

\* for m := range c.In: the next inbound message, or the end of the loop on
\* a closed, drained c.In. types are the runtime types that pass the
\* envelope's type test; a message of another type is the bad-message path:
\*     err := ErrBadMsg; close(c.In, err); close(rc, err); break
StreamRecv(here, fwd, fin, types) ==
    /\ pc = here
    /\ CanRecv(cin)
    /\ IF ~RecvOk(cin)
       THEN /\ pc' = fin
            /\ UNCHANGED <<cin, rc, rcCloseLog, held>>
       ELSE IF RecvMsg(cin).t \in types
       THEN /\ held' = RecvMsg(cin)
            /\ cin' = AfterRecv(cin)
            /\ pc' = fwd
            /\ UNCHANGED <<rc, rcCloseLog>>
       ELSE /\ cin' = ChClose(AfterRecv(cin), ErrBadMsg)
            /\ rc' = ChClose(rc, ErrBadMsg)
            /\ rcCloseLog' = Append(rcCloseLog, ErrBadMsg)
            /\ pc' = fin
            /\ held' = held
    /\ UNCHANGED <<lifeVars, otherVars, op, cout, inHist, got, dcCaller, dcHist, dcLocal, dtype, lerr>>

\* StreamForward without the close(c.In, cerror(rc)) of the rejected send
StreamForwardNoCancel(here, loop, fin) ==
    /\ pc = here
    /\ IF rc.closed
       THEN /\ pc' = fin
            /\ UNCHANGED <<rc, got>>
       ELSE /\ IF rc.cap = 0
               THEN got' = Append(got, held) /\ rc' = rc
               ELSE CanSend(rc) /\ rc' = AfterSend(rc, held) /\ got' = got
            /\ pc' = loop
    /\ UNCHANGED <<lifeVars, otherVars, op, cout, cin, inHist, rcCloseLog, dcCaller, dcHist,
                   dcLocal, dtype, held, lerr>>

\* if ok := rc <- m; !ok { close(c.In, cerror(rc)); break }
\* On the unbuffered rc of Find and FindGet the send completes when the
\* caller takes the value.
StreamForward(here, loop, fin) ==
    /\ pc = here
    /\ IF rc.closed
       THEN /\ cin' = ChClose(cin, cerror(rc))
            /\ pc' = fin
            /\ UNCHANGED <<rc, got>>
       ELSE /\ IF rc.cap = 0
               THEN got' = Append(got, held) /\ rc' = rc
               ELSE CanSend(rc) /\ rc' = AfterSend(rc, held) /\ got' = got
            /\ pc' = loop
            /\ cin' = cin
    /\ UNCHANGED <<lifeVars, otherVars, op, cout, inHist, rcCloseLog, dcCaller, dcHist, dcLocal,
                   dtype, held, lerr>>

\* err := cerror(c.In); close(rc, err)
StreamClose(here) ==
    /\ pc = here
    /\ lerr' = cerror(cin)
    /\ rc' = ChClose(rc, cerror(cin))
    /\ rcCloseLog' = Append(rcCloseLog, cerror(cin))
    /\ pc' = "done"
    /\ UNCHANGED <<lifeVars, otherVars, op, cout, cin, inHist, got, dcCaller, dcHist, dcLocal,
                   dtype, held>>

\* FindGet has no type test
AnyType == {m.t : m \in InMsgs}

GetSend == SendRequest("get.send", "get.loop")
\* GetRecv without the type test of line 329
GetRecvAny == StreamRecv("get.loop", "get.fwd", "get.fin", AnyType)
GetRecv == StreamRecv("get.loop", "get.fwd", "get.fin", {"bytes"})
GetForward == StreamForward("get.fwd", "get.loop", "get.fin")
GetClose == StreamClose("get.fin")

FindSend == SendRequest("find.send", "find.loop")
\* FindRecv without the type test of line 430
FindRecvAny == StreamRecv("find.loop", "find.fwd", "find.fin", AnyType)
FindRecv == StreamRecv("find.loop", "find.fwd", "find.fin", {"dir"})
FindForward == StreamForward("find.fwd", "find.loop", "find.fin")
FindClose == StreamClose("find.fin")

FindGetSend == SendRequest("findget.send", "findget.loop")
\* FindGetRecv with the type test of Find
FindGetRecvDirs == StreamRecv("findget.loop", "findget.fwd", "findget.fin", {"dir"})
FindGetRecv == StreamRecv("findget.loop", "findget.fwd", "findget.fin", AnyType)
FindGetForward == StreamForward("findget.fwd", "findget.loop", "findget.fin")
FindGetClose == StreamClose("findget.fin")

\* the channel Put's local variable dc denotes
DcChan == IF dcLocal = "fresh" THEN ClosedChan ELSE dcCaller

\* if dc == nil || d["type"] == "d" { dc = make(chan []byte); close(dc) }
\* if ok := c.Out <- m; !ok { err := cerror(c.Out); close(c.In, err); return }
PutSend ==
    /\ pc = "put.send"
    /\ dcLocal' = IF dcCaller = NoChan \/ dtype = "d" THEN "fresh" ELSE "caller"
    /\ IF SendOk(cout)
       THEN /\ cout' = AfterSend(cout, ReqMsg(op))
            /\ pc' = IF dtype = "d" THEN "put.closeout" ELSE "put.data"
            /\ cin' = cin
       ELSE /\ cin' = ChClose(cin, cerror(cout))
            /\ pc' = "done"
            /\ cout' = cout
    /\ UNCHANGED <<lifeVars, otherVars, op, inHist, rc, got, rcCloseLog, dcCaller, dcHist, dtype,
                   held, lerr>>

\* if d["type"] == "d" { close(c.Out) }
PutCloseOut ==
    /\ pc = "put.closeout"
    /\ cout' = ChClose(cout, "nil")
    /\ pc' = "put.recv"
    /\ UNCHANGED <<lifeVars, otherVars, op, cin, inHist, rc, got, rcCloseLog, dcCaller, dcHist,
                   dcLocal, dtype, held, lerr>>

\* PutData with the chunk taken from dc and not sent on c.Out
PutDataSkip ==
    /\ pc = "put.data"
    /\ RecvOk(DcChan)
    /\ dcCaller' = AfterRecv(dcCaller)
    /\ UNCHANGED <<lifeVars, otherVars, op, pc, cout, cin, inHist, rc, got, rcCloseLog,
                   dcHist, dcLocal, dtype, held, lerr>>

\* for m := range dc { if ok := c.Out <- m; !ok { err := cerror(c.Out);
\*     close(dc, err); close(c.In, err); close(rc, err); return } }
PutData ==
    /\ pc = "put.data"
    /\ RecvOk(DcChan)
    /\ IF SendOk(cout)
       THEN /\ cout' = AfterSend(cout, RecvMsg(DcChan))
            /\ dcCaller' = AfterRecv(dcCaller)
            /\ pc' = pc
            /\ UNCHANGED <<cin, rc, rcCloseLog>>
       ELSE /\ dcCaller' = ChClose(AfterRecv(dcCaller), cerror(cout))
            /\ cin' = ChClose(cin, cerror(cout))
            /\ rc' = ChClose(rc, cerror(cout))
            /\ rcCloseLog' = Append(rcCloseLog, cerror(cout))
            /\ pc' = "done"
            /\ cout' = cout
    /\ UNCHANGED <<lifeVars, otherVars, op, inHist, got, dcHist, dcLocal, dtype, held, lerr>>

\* PutDataEnd without the `if err != nil { ... return }` of lines 392-396:
\* the reply is awaited whatever the data channel's error
PutDataEndWaits ==
    /\ pc = "put.data"
    /\ ~RecvOk(DcChan) /\ DcChan.closed
    /\ cout' = ChClose(cout, cerror(DcChan))
    /\ pc' = "put.recv"
    /\ UNCHANGED <<lifeVars, otherVars, op, cin, inHist, rc, got, rcCloseLog, dcCaller,
                   dcHist, dcLocal, dtype, held, lerr>>

\* err := cerror(dc); close(c.Out, err)
\* if err != nil { close(c.In, err); close(rc, err); return }
PutDataEnd ==
    /\ pc = "put.data"
    /\ ~RecvOk(DcChan) /\ DcChan.closed
    /\ cout' = ChClose(cout, cerror(DcChan))
    /\ IF cerror(DcChan) # "nil"
       THEN /\ cin' = ChClose(cin, cerror(DcChan))
            /\ rc' = ChClose(rc, cerror(DcChan))
            /\ rcCloseLog' = Append(rcCloseLog, cerror(DcChan))
            /\ pc' = "done"
       ELSE /\ pc' = "put.recv"
            /\ UNCHANGED <<cin, rc, rcCloseLog>>
    /\ UNCHANGED <<lifeVars, otherVars, op, inHist, got, dcCaller, dcHist, dcLocal, dtype, held, lerr>>

PutRecv == RecvOne("put.recv", "put.reply")
PutReply == ReplyDir("put.reply")

\* ------------------------------------------------ the envelope's environment
Started == pc # "idle"
RequestOut == cout.buf # <<>>

\* the server's next reply message arrives on the inbound half
MuxDeliver ==
    /\ RequestOut
    /\ ~cin.closed
    /\ Len(inHist) < MaxIn
    /\ \E m \in InMsgs :
          /\ cin' = AfterSend(cin, m)
          /\ inHist' = Append(inHist, m)
    /\ UNCHANGED <<lifeVars, otherVars, op, pc, cout, rc, got, rcCloseLog, dcCaller, dcHist,
                   dcLocal, dtype, held, lerr>>

\* the inbound half closes: end of reply, server error, or transport failure
MuxCloseIn ==
    /\ Started
    /\ ~cin.closed
    /\ \E e \in InErrs :
          /\ (e # "i/o error") => RequestOut
          /\ cin' = ChClose(cin, e)
    /\ UNCHANGED <<lifeVars, otherVars, op, pc, cout, inHist, rc, got, rcCloseLog, dcCaller,
                   dcHist, dcLocal, dtype, held, lerr>>

\* the transport fails under the outbound half (or the mux was torn down
\* before the call was allocated): later sends are rejected
MuxCloseOut ==
    /\ Started
    /\ ~cout.closed
    /\ cout' = ChClose(cout, "i/o error")
    /\ UNCHANGED <<lifeVars, otherVars, op, pc, cin, inHist, rc, got, rcCloseLog, dcCaller,
                   dcHist, dcLocal, dtype, held, lerr>>

\* the caller receives from the (buffered) result channel
CallerRecv ==
    /\ rc.buf # <<>>
    /\ got' = Append(got, Head(rc.buf))
    /\ rc' = AfterRecv(rc)
    /\ UNCHANGED <<lifeVars, otherVars, op, pc, cout, cin, inHist, rcCloseLog, dcCaller, dcHist,
                   dcLocal, dtype, held, lerr>>

\* the caller cancels: closes the result channel with a reason
CallerCancel ==
    /\ Started
    /\ ~rc.closed
    /\ rc' = ChClose(rc, "cancelled")
    /\ UNCHANGED <<lifeVars, otherVars, op, pc, cout, cin, inHist, got, rcCloseLog, dcCaller,
                   dcHist, dcLocal, dtype, held, lerr>>

\* the producer offers the next chunk on the data channel it gave to Put
ProducerSend ==
    /\ dcCaller # NoChan
    /\ ~dcCaller.closed
    /\ dcCaller.buf = <<>>
    /\ Len(dcHist) < MaxData
    /\ \E m \in DataMsgs :
          /\ dcCaller' = AfterSend(dcCaller, m)
          /\ dcHist' = Append(dcHist, m)
    /\ UNCHANGED <<lifeVars, otherVars, op, pc, cout, cin, inHist, rc, got, rcCloseLog, dcLocal,
                   dtype, held, lerr>>

\* the producer closes the data channel, cleanly or with an error
ProducerClose ==
    /\ dcCaller # NoChan
    /\ ~dcCaller.closed
    /\ dcCaller.buf = <<>>
    /\ \E e \in {"nil", "data error"} : dcCaller' = ChClose(dcCaller, e)
    /\ UNCHANGED <<lifeVars, otherVars, op, pc, cout, cin, inHist, rc, got, rcCloseLog, dcHist,
                   dcLocal, dtype, held, lerr>>

NextEnv ==
    \/ Stat \/ Wstat \/ Remove \/ RemoveAll \/ Move \/ Link
    \/ Get \/ Put \/ Find \/ FindGet
    \/ DircallSend \/ DircallRecv \/ DircallReply
    \/ ErrcallSend \/ ErrcallRecv \/ ErrcallReply
    \/ GetSend \/ GetRecv \/ GetForward \/ GetClose
    \/ PutSend \/ PutCloseOut \/ PutData \/ PutDataEnd \/ PutRecv \/ PutReply
    \/ FindSend \/ FindRecv \/ FindForward \/ FindClose
    \/ FindGetSend \/ FindGetRecv \/ FindGetForward \/ FindGetClose
    \/ MuxDeliver \/ MuxCloseIn \/ MuxCloseOut
    \/ CallerRecv \/ CallerCancel
    \/ ProducerSend \/ ProducerClose


\* ------------------------------------------------------------ addresses
\* A string is the sequence of its characters; "!" is the separator and
\* every other symbol stands for a stretch of characters without one.
Bang == <<"!">>

RECURSIVE Split(_)
\* strings.Split(s, "!")
Split(s) ==
    IF \A i \in 1..Len(s) : s[i] # "!"
    THEN <<s>>
    ELSE LET i == CHOOSE k \in 1..Len(s) :
                      s[k] = "!" /\ \A j \in 1..(k - 1) : s[j] # "!"
         IN <<SubSeq(s, 1, i - 1)>> \o Split(SubSeq(s, i + 1, Len(s)))

\* FillAddr with the port of a two-token address dropped for "zx"
FillAddrNoPort(addr) ==
    LET toks == Split(addr)
    IN CASE Len(toks) = 1 -> <<"tcp">> \o Bang \o toks[1] \o Bang \o <<"zx">> \o Bang \o <<"main">>
         [] Len(toks) = 2 -> <<"tcp">> \o Bang \o toks[1] \o Bang \o <<"zx">> \o Bang \o <<"main">>
         [] Len(toks) = 3 -> addr \o Bang \o <<"main">>
         [] OTHER -> addr

\* FillAddr that completes three-token addresses only
FillAddrBare(addr) ==
    LET toks == Split(addr)
    IN CASE Len(toks) = 3 -> addr \o Bang \o <<"main">>
         [] OTHER -> addr

\* lines 60-72
FillAddr(addr) ==
    LET toks == Split(addr)
    IN CASE Len(toks) = 1 -> <<"tcp">> \o Bang \o toks[1] \o Bang \o <<"zx">> \o Bang \o <<"main">>
         [] Len(toks) = 2 -> <<"tcp">> \o Bang \o toks[1] \o Bang \o toks[2] \o Bang \o <<"main">>
         [] Len(toks) = 3 -> addr \o Bang \o <<"main">>
         [] OTHER -> addr

\* strings.LastIndexByte(addr, '!'), counted from 1 (0: none)
LastIndexByte(addr) ==
    IF \E i \in 1..Len(addr) : addr[i] = "!"
    THEN CHOOSE k \in 1..Len(addr) :
             addr[k] = "!" /\ \A j \in (k + 1)..Len(addr) : addr[j] # "!"
    ELSE 0

\* splitaddr: (addr[:n], addr[n+1:]); ok is false where the code panics
splitaddr(addr) ==
    LET n == LastIndexByte(addr)
    IN [ok |-> n > 0,
        conn |-> SubSeq(addr, 1, n - 1),
        tree |-> SubSeq(addr, n + 1, Len(addr))]

\* the addresses the client threads dial
DialAddrs ==
    { <<"h">>,
      <<"h">> \o Bang \o <<"zx">>,
      <<"tcp">> \o Bang \o <<"h">> \o Bang \o <<"zx">>,
      <<"tcp">> \o Bang \o <<"h">> \o Bang \o <<"zx">> \o Bang \o <<"work">> }
RAddrs == { FillAddr(a) : a \in DialAddrs }

\* ------------------------------------------------- handles, muxes, threads
Threads == 1..NThreads
Muxes == 1..MaxMux
\* every handle but the ones a Dial in progress has built has opened a mux;
\* every channel but the handles' first ones was made by a Redial that went
\* on to open a mux or to fail
Handles == 1..(MaxMux + NThreads + MaxCopies)
Cws == 1..(2 * MaxMux + NThreads + MaxCopies)

NoErr == [text |-> <<>>, prefix |-> <<>>, arg |-> <<>>]
Err(text) == [text |-> text, prefix |-> <<>>, arg |-> <<>>]

\* &Fs{} before Dial fills it in; lock is the holder of the embedded
\* sync.Mutex (0: free). trees is the content of the map the field refers
\* to and tm the map's identity (the handle it was made for): a handle that
\* Fsys copied shares the map. sel is the tree the handle was made for.
NoFs == [addr |-> <<>>, raddr |-> <<>>, ai |-> 0, m |-> 0, closed |-> TRUE,
         closewc |-> 0, trees |-> {}, fsys |-> <<>>, lock |-> 0,
         tm |-> 0, sel |-> <<>>]
\* the locals of a running Redial: the handle, m, ai, err (of auth.AtClient),
\* whether Dial is the caller, and the trees this Redial's getTrees found
\* the server to serve
Locals0 == [h |-> 0, m |-> 0, ai |-> 0, err |-> <<>>, fromDial |-> FALSE,
            served |-> {}]
\* a call's return: the call, the handle and error it returned, and whether
\* the handle came from the cache (line 96)
NoRes == [kind |-> "none", h |-> 0, err |-> NoErr, hit |-> FALSE]

LifeInit ==
    /\ hs = [h \in Handles |-> NoFs]
    /\ mux = [m \in Muxes |-> "none"]
    /\ nmux = 0
    /\ cw = [c \in Cws |-> 0]
    /\ dials = [a \in RAddrs |-> 0]
    /\ tpc = [t \in Threads |-> "idle"]
    /\ th = [t \in Threads |-> Locals0]
    /\ res = NoRes
    /\ wpc = [m \in Muxes |-> "none"]
    /\ wst = [m \in Muxes |-> [h |-> 0, closewc |-> 0]]
    /\ est = [h \in Handles |-> [m |-> 0, ai |-> 0]]
    /\ returned = {}
    /\ crashed = FALSE

\* no address completed
NoCall == [addr |-> <<>>, filled |-> <<>>, step |-> "none",
           ok |-> FALSE, conn |-> <<>>, tree |-> <<>>]

\* no tree discovery made
NoTrees == [trees |-> {}, ret |-> "none", redial |-> "none"]

\* no HTTP request served
NoAuth == [step |-> "none", tls |-> FALSE, enabled |-> FALSE, cr |-> {}, totp |-> {},
           has |-> FALSE, value |-> <<>>, origin |-> "none",
           http |-> "none", ws |-> "none"]

OtherInit == fa = NoCall /\ dlk = 0 /\ gt = NoTrees /\ au = NoAuth

Init == EnvInit /\ LifeInit /\ OtherInit

At(t, label) == ~crashed /\ tpc[t] = label
Goto(t, label) == tpc' = [tpc EXCEPT ![t] = label]

\* m.Close() and the peer's disconnect both end in m.Hup
MuxClose(ms, m) == [ms EXCEPT ![m] = "down"]
Hup(m) == mux[m] = "down"

\* a client call goes to the first thread that is free
FirstIdle(t) == \A u \in Threads : u < t => tpc[u] # "idle"

\* Fresh objects take the first identity nothing refers to any more.
Min(S) == CHOOSE x \in S : \A y \in S : x <= y
\* &Fs{...}: a handle nobody holds
NewHandle == Min({h \in Handles : hs[h] = NoFs})
\* make(chan bool): a channel no handle and no running watcher holds
NewCw ==
    Min({c \in Cws : /\ \A h \in Handles : hs[h].closewc # c
                     /\ \A m \in Muxes : wpc[m] \in {"hup", "evict"} => wst[m].closewc # c})

\* dialed(addr): the cache entry, read under dialslk
dialed(addr) == [fs |-> dials[addr], ok |-> dials[addr] # 0]

\* dials[fs.raddr] == fs: the handle is the cache's entry under its address
Cached(h) == hs[h] # NoFs /\ dials[hs[h].raddr] = h

\* the handle Dial builds on a cache miss, lines 98-110
NewFs(raddr, c) ==
    [NoFs EXCEPT !.addr = splitaddr(raddr).conn, !.raddr = raddr,
                 !.fsys = splitaddr(raddr).tree, !.closed = TRUE, !.closewc = c,
                 !.tm = NewHandle, !.sel = splitaddr(raddr).tree]

\* Dial, lines 90-113: complete the address, return the cached handle, or
\* build a closed one and go on to fs.Redial()
Dial(t) ==
    /\ At(t, "idle")
    /\ FirstIdle(t)
    /\ \E a \in DialAddrs :
          LET addr == FillAddr(a)
          IN IF dialed(addr).ok
             THEN /\ res' = [kind |-> "Dial", h |-> dialed(addr).fs, err |-> NoErr,
                               hit |-> TRUE]
                  /\ returned' = returned \cup {dialed(addr).fs}
                  /\ UNCHANGED <<hs, cw, tpc, th, crashed>>
             ELSE IF ~splitaddr(addr).ok
             THEN /\ crashed' = TRUE
                  /\ res' = NoRes
                  /\ UNCHANGED <<hs, cw, tpc, th, returned>>
             ELSE /\ hs' = [hs EXCEPT ![NewHandle] = NewFs(addr, NewCw)]
                  /\ cw' = [cw EXCEPT ![NewCw] = 0]
                  /\ th' = [th EXCEPT ![t] = [Locals0 EXCEPT !.h = NewHandle, !.fromDial = TRUE]]
                  /\ Goto(t, "redial.lock")
                  /\ res' = NoRes
                  /\ UNCHANGED <<returned, crashed>>
    /\ UNCHANGED <<envVars, otherVars, mux, nmux, dials, wpc, wst, est>>

\* a client calls fs.Redial() on a handle Dial gave it
Redial(t) ==
    /\ At(t, "idle")
    /\ FirstIdle(t)
    /\ \E h \in returned :
          th' = [th EXCEPT ![t] = [Locals0 EXCEPT !.h = h]]
    /\ Goto(t, "redial.lock")
    /\ res' = NoRes
    /\ UNCHANGED <<envVars, otherVars, hs, mux, nmux, cw, dials,
                   wpc, wst, est, returned, crashed>>

\* func (fs *Fs) Close() error { fs.m.Close(); return nil }
Close(t) ==
    /\ At(t, "idle")
    /\ FirstIdle(t)
    /\ \E h \in returned :
          /\ IF hs[h].m = 0
             THEN crashed' = TRUE /\ mux' = mux
             ELSE mux' = MuxClose(mux, hs[h].m) /\ crashed' = crashed
          /\ res' = [kind |-> "Close", h |-> h, err |-> NoErr, hit |-> FALSE]
    /\ UNCHANGED <<envVars, otherVars, hs, nmux, cw, dials, tpc, th,
                   wpc, wst, est, returned>>

\* --------------------------------------------------- Fsys and operations
\* the tree names clients ask Fsys for
FsysNames == {<<"main">>, <<"work">>, <<"nosuch">>}

\* a Redial is inside getTrees on the map fs.trees refers to
MapWritten(h) ==
    \E t \in Threads : tpc[t] = "redial.trees" /\ hs[th[t].h].tm = hs[h].tm

\* the handles Fsys made: they refer to the map of the handle they come from
Copies == {k \in Handles : hs[k] # NoFs /\ hs[k].tm # k}

\* Fsys without the test of line 226: every name gets a handle
FsysUnchecked ==
    /\ ~crashed
    /\ \E h \in returned, name \in FsysNames :
          /\ Cardinality(Copies) < MaxCopies
          /\ hs' = [hs EXCEPT ![NewHandle] = [hs[h] EXCEPT !.fsys = name, !.sel = name]]
          /\ est' = [est EXCEPT ![NewHandle] = est[h]]
          /\ returned' = returned \cup {NewHandle}
          /\ res' = [kind |-> "Fsys", h |-> NewHandle, err |-> NoErr, hit |-> FALSE,
                     of |-> h, name |-> name]
    /\ UNCHANGED <<envVars, otherVars, mux, nmux, cw, dials, tpc, th, wpc, wst,
                   crashed>>

\* Fsys with nfs := fs in place of the copy: the handle itself is rebound
FsysRebind ==
    /\ ~crashed
    /\ \E h \in returned, name \in FsysNames :
          LET known == name = <<"main">> \/ name \in hs[h].trees
          IN IF known
             THEN /\ hs' = [hs EXCEPT ![h].fsys = name, ![h].sel = name]
                  /\ res' = [kind |-> "Fsys", h |-> h, err |-> NoErr,
                             hit |-> FALSE, of |-> h, name |-> name]
             ELSE /\ res' = [kind |-> "Fsys", h |-> 0, hit |-> FALSE,
                             err |-> [text |-> <<"no fsys">>, prefix |-> <<>>,
                                      arg |-> name],
                             of |-> h, name |-> name]
                  /\ hs' = hs
    /\ UNCHANGED <<envVars, otherVars, mux, nmux, cw, dials, tpc, th, wpc, wst,
                   est, returned, crashed>>

\* Fsys, lines 222-230: nfs := &Fs{}; *nfs = *fs; nfs.fsys = name; return
\* nfs if name == "main" || fs.trees[name], else the error "no fsys 'name'".
\* The copy takes the mutex as it is. fs.trees[name] reads the map without
\* the lock: read while getTrees writes it, the runtime may end the program.
\* res shows what was returned, for which handle and name.
Fsys ==
    /\ ~crashed
    /\ \E h \in returned, name \in FsysNames :
          LET fs == hs[h]
              known == name = <<"main">> \/ name \in fs.trees
          IN \/ /\ known
                /\ Cardinality(Copies) < MaxCopies
                /\ hs' = [hs EXCEPT ![NewHandle] = [fs EXCEPT !.fsys = name, !.sel = name]]
                /\ est' = [est EXCEPT ![NewHandle] = est[h]]
                /\ returned' = returned \cup {NewHandle}
                /\ res' = [kind |-> "Fsys", h |-> NewHandle, err |-> NoErr,
                           hit |-> FALSE, of |-> h, name |-> name]
                /\ crashed' = crashed
             \/ /\ ~known
                /\ res' = [kind |-> "Fsys", h |-> 0, hit |-> FALSE,
                           err |-> [text |-> <<"no fsys">>, prefix |-> <<>>,
                                    arg |-> name],
                           of |-> h, name |-> name]
                /\ UNCHANGED <<hs, est, returned, crashed>>
             \/ /\ name # <<"main">>
                /\ MapWritten(h)
                /\ crashed' = TRUE
                /\ res' = NoRes
                /\ UNCHANGED <<hs, est, returned>>
    /\ UNCHANGED <<envVars, otherVars, mux, nmux, cw, dials, tpc, th, wpc, wst>>

\* Request with Fsys: "main" in the message, as in getTrees's request
RequestMain ==
    /\ ~crashed
    /\ \E h \in returned :
          IF hs[h].m = 0
          THEN crashed' = TRUE /\ res' = NoRes
          ELSE /\ res' = [kind |-> "Request", h |-> h, err |-> NoErr,
                          hit |-> FALSE, fsys |-> <<"main">>,
                          m |-> hs[h].m, up |-> mux[hs[h].m] = "open"]
               /\ crashed' = crashed
    /\ UNCHANGED <<envVars, otherVars, hs, mux, nmux, cw, dials, tpc, th, wpc,
                   wst, est, returned>>

\* Request that takes the handle's mutex first, as Redial does
RequestLocked ==
    /\ ~crashed
    /\ \E h \in returned :
          /\ hs[h].lock = 0
          /\ IF hs[h].m = 0
             THEN crashed' = TRUE /\ res' = NoRes
             ELSE /\ res' = [kind |-> "Request", h |-> h, err |-> NoErr,
                             hit |-> FALSE, fsys |-> hs[h].fsys,
                             m |-> hs[h].m, up |-> mux[hs[h].m] = "open"]
                  /\ crashed' = crashed
    /\ UNCHANGED <<envVars, otherVars, hs, mux, nmux, cw, dials, tpc, th, wpc,
                   wst, est, returned>>

\* An operation is called on a handle. Every operation starts as Stat does:
\* it builds its request, &Msg{Op: ..., Fsys: fs.fsys, ...}, and allocates a
\* call, c := fs.m.Rpc(). res shows the request's Fsys, the mux it goes to
\* and whether that mux is up.
Request ==
    /\ ~crashed
    /\ \E h \in returned :
          IF hs[h].m = 0
          THEN crashed' = TRUE /\ res' = NoRes
          ELSE /\ res' = [kind |-> "Request", h |-> h, err |-> NoErr,
                          hit |-> FALSE, fsys |-> hs[h].fsys,
                          m |-> hs[h].m, up |-> mux[hs[h].m] = "open"]
               /\ crashed' = crashed
    /\ UNCHANGED <<envVars, otherVars, hs, mux, nmux, cw, dials, tpc, th, wpc,
                   wst, est, returned>>

\* ------------------------------------------------------------------ Redial
\* strings.Contains(s, sub)
Contains(s, sub) ==
    \E i \in 0..(Len(s) - Len(sub)) : SubSeq(s, i + 1, i + Len(sub)) = sub

AuthDisabled == <<"auth", "disabled">>

\* auth.AtClient(call, "", "zx") over mux m: an authentication context and
\* no error, or no context and an error
AtClient(m) ==
    { [ai |-> m, err |-> <<>>] } \cup
    { [ai |-> 0, err |-> e] :
        e \in { <<"rpc", "auth", "disabled", "by", "server">>,
                <<"auth", "failed">> } }

\* what a server may answer to Ttrees
TreeMsgs == { [t |-> "str", name |-> <<"work">>], [t |-> "dir", name |-> <<>>] }
TreeReplies == UNION { [1..n -> TreeMsgs] : n \in 0..MaxTreeMsgs }

RECURSIVE TreesLoop(_, _, _)
\* getTrees, lines 199-210: for m := range c.In { ... }; fs.trees["main"] = true
TreesLoop(trees, replies, inerr) ==
    IF replies = <<>>
    THEN [trees |-> trees \cup {<<"main">>}, err |-> inerr]
    ELSE IF Head(replies).t # "str"
    THEN [trees |-> trees, err |-> <<ErrBadMsg>>]
    ELSE TreesLoop(trees \cup {Head(replies).name}, Tail(replies), inerr)

\* getTrees: the request is rejected, or the replies are read
getTrees(trees, rejected, replies, inerr) ==
    IF rejected
    THEN [trees |-> trees, err |-> <<"i/o error">>]
    ELSE TreesLoop(trees, replies, inerr)

\* the handle after Redial returned e: Dial drops the one it built when
\* Redial fails (return nil, err), every other one is unlocked
Left(t, e, fs) ==
    IF th[t].fromDial /\ e # NoErr THEN NoFs ELSE [fs EXCEPT !.lock = 0]

\* Redial returns e to its caller, Dial (lines 114-117) or the client
Return(t, e) ==
    /\ res' = [kind |-> IF th[t].fromDial THEN "Dial" ELSE "Redial",
               h |-> IF th[t].fromDial /\ e # NoErr THEN 0 ELSE th[t].h,
               err |-> e, hit |-> FALSE]
    /\ returned' = IF th[t].fromDial /\ e = NoErr
                   THEN returned \cup {th[t].h} ELSE returned
    /\ th' = [th EXCEPT ![t] = Locals0]
    /\ Goto(t, "idle")

\* lines 127-131: fs.Lock(); if !fs.closed { if fs.m != nil { fs.m.Close() ...
RedialLock(t) ==
    /\ At(t, "redial.lock")
    /\ hs[th[t].h].lock = 0
    /\ hs' = [hs EXCEPT ![th[t].h].lock = t]
    /\ LET fs == hs[th[t].h]
       IN IF ~fs.closed
          THEN IF fs.m # 0
               THEN mux' = MuxClose(mux, fs.m) /\ Goto(t, "redial.wait")
               ELSE mux' = mux /\ Goto(t, "redial.reset")
          ELSE mux' = mux /\ Goto(t, "redial.connect")
    /\ res' = NoRes
    /\ UNCHANGED <<envVars, otherVars, nmux, cw, dials, th,
                   wpc, wst, est, returned, crashed>>

\* <-fs.closewc
RedialWait(t) ==
    /\ At(t, "redial.wait")
    /\ cw[hs[th[t].h].closewc] > 0
    /\ Goto(t, "redial.reset")
    /\ res' = NoRes
    /\ UNCHANGED <<envVars, otherVars, hs, mux, nmux, cw, dials, th,
                   wpc, wst, est, returned, crashed>>

\* fs.ai = nil; fs.closed = true; fs.closewc = make(chan bool)
RedialReset(t) ==
    /\ At(t, "redial.reset")
    /\ hs' = [hs EXCEPT ![th[t].h].ai = 0, ![th[t].h].closed = TRUE,
                        ![th[t].h].closewc = NewCw]
    /\ cw' = [cw EXCEPT ![NewCw] = 0]
    /\ Goto(t, "redial.connect")
    /\ res' = NoRes
    /\ UNCHANGED <<envVars, otherVars, mux, nmux, dials, th,
                   wpc, wst, est, returned, crashed>>

\* RedialConnect without the strings.Contains test of line 145: every
\* authentication error is fatal
RedialConnectStrict(t) ==
    /\ At(t, "redial.connect")
    /\ \E dialok \in {FALSE} \cup {nmux < MaxMux} :
          IF ~dialok
          THEN /\ Return(t, Err(<<"dial failed">>))
               /\ hs' = [hs EXCEPT ![th[t].h] = Left(t, Err(<<"dial failed">>), @)]
               /\ UNCHANGED <<mux, nmux>>
          ELSE /\ nmux' = nmux + 1
               /\ \E r \in AtClient(nmux + 1) :
                     IF r.err # <<>>
                     THEN /\ mux' = [mux EXCEPT ![nmux + 1] = "down"]
                          /\ Return(t, [text |-> r.err, prefix |-> hs[th[t].h].addr,
                                        arg |-> <<>>])
                          /\ hs' = [hs EXCEPT ![th[t].h] = Left(t, Err(r.err), @)]
                     ELSE /\ mux' = [mux EXCEPT ![nmux + 1] = "open"]
                          /\ th' = [th EXCEPT ![t].m = nmux + 1, ![t].ai = r.ai,
                                       ![t].err = r.err]
                          /\ hs' = [hs EXCEPT ![th[t].h].ai = r.ai, ![th[t].h].m = nmux + 1]
                          /\ Goto(t, "redial.trees")
                          /\ res' = NoRes
                          /\ UNCHANGED returned
    /\ UNCHANGED <<envVars, otherVars, cw, dials, wpc, wst, est, crashed>>

\* lines 138-152: open the mux and authenticate. A failed MuxDial returns
\* its error; "auth disabled" is a warning, any other authentication error
\* closes the mux and fails with "addr: err"; then fs.ai = ai; fs.m = m.
RedialConnect(t) ==
    /\ At(t, "redial.connect")
    /\ \E dialok \in {FALSE} \cup {nmux < MaxMux} :
          IF ~dialok
          THEN /\ Return(t, Err(<<"dial failed">>))
               /\ hs' = [hs EXCEPT ![th[t].h] = Left(t, Err(<<"dial failed">>), @)]
               /\ UNCHANGED <<mux, nmux>>
          ELSE /\ nmux' = nmux + 1
               /\ \E r \in AtClient(nmux + 1) :
                     IF r.err # <<>> /\ ~Contains(r.err, AuthDisabled)
                     THEN /\ mux' = [mux EXCEPT ![nmux + 1] = "down"]
                          /\ Return(t, [text |-> r.err, prefix |-> hs[th[t].h].addr,
                                        arg |-> <<>>])
                          /\ hs' = [hs EXCEPT ![th[t].h] = Left(t, Err(r.err), @)]
                     ELSE /\ mux' = [mux EXCEPT ![nmux + 1] = "open"]
                          /\ th' = [th EXCEPT ![t].m = nmux + 1, ![t].ai = r.ai,
                                       ![t].err = r.err]
                          /\ hs' = [hs EXCEPT ![th[t].h].ai = r.ai, ![th[t].h].m = nmux + 1]
                          /\ Goto(t, "redial.trees")
                          /\ res' = NoRes
                          /\ UNCHANGED returned
    /\ UNCHANGED <<envVars, otherVars, cw, dials, wpc, wst, est, crashed>>

\* fs.trees[s] = true writes the map, which every handle copied from fs or
\* fs was copied from refers to as well
WriteTrees(h, trees) ==
    [k \in Handles |->
        IF hs[k] # NoFs /\ hs[k].tm = hs[h].tm
        THEN [hs[k] EXCEPT !.trees = trees] ELSE hs[k]]

\* RedialTrees without the m.Close() of lines 157 and 161
RedialTreesLeak(t) ==
    /\ At(t, "redial.trees")
    /\ \E rejected \in BOOLEAN, replies \in TreeReplies,
          inerr \in {<<>>, <<"i/o error">>} :
          LET fs == hs[th[t].h]
              r == getTrees(fs.trees, rejected, replies, inerr)
              off == [fs EXCEPT !.trees = r.trees, !.ai = 0, !.m = 0]
          IN IF r.err # <<>>
             THEN /\ mux' = mux
                  /\ Return(t, Err(r.err))
                  /\ hs' = [WriteTrees(th[t].h, r.trees) EXCEPT
                              ![th[t].h] = Left(t, Err(r.err), off)]
             ELSE IF fs.fsys \notin r.trees
             THEN /\ mux' = mux
                  /\ Return(t, [text |-> <<"no fsys found in server">>,
                                prefix |-> <<>>, arg |-> fs.fsys])
                  /\ hs' = [WriteTrees(th[t].h, r.trees) EXCEPT
                              ![th[t].h] = Left(t, Err(<<"no fsys">>), off)]
             ELSE /\ hs' = [WriteTrees(th[t].h, r.trees) EXCEPT ![th[t].h] = off]
                  /\ th' = [th EXCEPT ![t].err = <<>>,
                               ![t].served = getTrees({}, rejected, replies, inerr).trees]
                  /\ Goto(t, "redial.publish")
                  /\ res' = NoRes
                  /\ UNCHANGED <<mux, returned>>
    /\ UNCHANGED <<envVars, otherVars, nmux, cw, dials, wpc, wst, est, crashed>>

\* lines 153-163: err = fs.getTrees(); fs.ai = nil; fs.m = nil; on an error
\* or a tree the server does not serve, m.Close() and return the error
RedialTrees(t) ==
    /\ At(t, "redial.trees")
    /\ \E rejected \in BOOLEAN, replies \in TreeReplies,
          inerr \in {<<>>, <<"i/o error">>} :
          LET fs == hs[th[t].h]
              r == getTrees(fs.trees, rejected, replies, inerr)
              off == [fs EXCEPT !.trees = r.trees, !.ai = 0, !.m = 0]
          IN IF r.err # <<>>
             THEN /\ mux' = MuxClose(mux, th[t].m)
                  /\ Return(t, Err(r.err))
                  /\ hs' = [WriteTrees(th[t].h, r.trees) EXCEPT
                              ![th[t].h] = Left(t, Err(r.err), off)]
             ELSE IF fs.fsys \notin r.trees
             THEN /\ mux' = MuxClose(mux, th[t].m)
                  /\ Return(t, [text |-> <<"no fsys found in server">>,
                                prefix |-> <<>>, arg |-> fs.fsys])
                  /\ hs' = [WriteTrees(th[t].h, r.trees) EXCEPT
                              ![th[t].h] = Left(t, Err(<<"no fsys">>), off)]
             ELSE /\ hs' = [WriteTrees(th[t].h, r.trees) EXCEPT ![th[t].h] = off]
                  /\ th' = [th EXCEPT ![t].err = <<>>,
                               ![t].served = getTrees({}, rejected, replies, inerr).trees]
                  /\ Goto(t, "redial.publish")
                  /\ res' = NoRes
                  /\ UNCHANGED <<mux, returned>>
    /\ UNCHANGED <<envVars, otherVars, nmux, cw, dials, wpc, wst, est, crashed>>

\* RedialPublish without line 165: fs.m stays nil
RedialPublishNoMux(t) ==
    /\ At(t, "redial.publish")
    /\ hs' = [hs EXCEPT ![th[t].h].ai = th[t].ai, ![th[t].h].closed = FALSE]
    /\ est' = [est EXCEPT ![th[t].h] = [m |-> th[t].m, ai |-> th[t].ai]]
    /\ Goto(t, "redial.install")
    /\ res' = NoRes
    /\ UNCHANGED <<envVars, otherVars, mux, nmux, cw, dials, th,
                   wpc, wst, returned, crashed>>

\* fs.ai = ai; fs.m = m; fs.closed = false
RedialPublish(t) ==
    /\ At(t, "redial.publish")
    /\ hs' = [hs EXCEPT ![th[t].h].ai = th[t].ai, ![th[t].h].m = th[t].m,
                        ![th[t].h].closed = FALSE]
    /\ est' = [est EXCEPT ![th[t].h] = [m |-> th[t].m, ai |-> th[t].ai]]
    /\ Goto(t, "redial.install")
    /\ res' = NoRes
    /\ UNCHANGED <<envVars, otherVars, mux, nmux, cw, dials, th,
                   wpc, wst, returned, crashed>>

\* RedialInstall without the go statement of lines 171-180
RedialInstallNoWatcher(t) ==
    /\ At(t, "redial.install")
    /\ dials' = [dials EXCEPT ![hs[th[t].h].raddr] = th[t].h]
    /\ hs' = [hs EXCEPT ![th[t].h].lock = 0]
    /\ Return(t, NoErr)
    /\ UNCHANGED <<envVars, otherVars, mux, nmux, cw, wpc, wst, est, crashed>>

\* lines 167-182: dials[fs.raddr] = fs under dialslk; closewc := fs.closewc;
\* start the watcher; return nil (and the deferred fs.Unlock())
RedialInstall(t) ==
    /\ At(t, "redial.install")
    /\ dials' = [dials EXCEPT ![hs[th[t].h].raddr] = th[t].h]
    /\ wpc' = [wpc EXCEPT ![th[t].m] = "hup"]
    /\ wst' = [wst EXCEPT ![th[t].m] = [h |-> th[t].h, closewc |-> hs[th[t].h].closewc]]
    /\ hs' = [hs EXCEPT ![th[t].h].lock = 0]
    /\ Return(t, NoErr)
    /\ UNCHANGED <<envVars, otherVars, mux, nmux, cw, est, crashed>>

\* ---------------------------------------------------- the hangup watcher
\* <-m.Hup; fs.Lock(); fs.closed = true; fs.Unlock()
WatcherHup(m) ==
    /\ ~crashed
    /\ wpc[m] = "hup"
    /\ Hup(m)
    /\ hs[wst[m].h].lock = 0
    /\ hs' = [hs EXCEPT ![wst[m].h].closed = TRUE]
    /\ wpc' = [wpc EXCEPT ![m] = "evict"]
    /\ res' = NoRes
    /\ UNCHANGED <<envVars, otherVars, mux, nmux, cw, dials, tpc, th,
                   wst, est, returned, crashed>>

\* delete(dials, fs.raddr) under dialslk; close(closewc)
WatcherEvict(m) ==
    /\ ~crashed
    /\ wpc[m] = "evict"
    /\ dials' = [dials EXCEPT ![hs[wst[m].h].raddr] = 0]
    /\ cw' = [cw EXCEPT ![wst[m].closewc] = @ + 1]
    /\ wpc' = [wpc EXCEPT ![m] = "done"]
    /\ res' = NoRes
    /\ UNCHANGED <<envVars, otherVars, hs, mux, nmux, tpc, th,
                   wst, est, returned, crashed>>

\* the peer of a handle's mux disconnects
PeerHup(m) ==
    /\ ~crashed
    /\ mux[m] = "open"
    /\ \E h \in Handles : hs[h].m = m
    /\ mux' = MuxClose(mux, m)
    /\ res' = NoRes
    /\ UNCHANGED <<envVars, otherVars, hs, nmux, cw, dials, tpc, th,
                   wpc, wst, est, returned, crashed>>

\* ----------------------------------------------------------- specifications
ThreadStep(t) ==
    \/ RedialLock(t) \/ RedialWait(t) \/ RedialReset(t)
    \/ RedialConnect(t) \/ RedialTrees(t)
    \/ RedialPublish(t) \/ RedialInstall(t)

WatcherStep(m) ==
    \/ WatcherHup(m) \/ WatcherEvict(m)

Next ==
    \/ \E t \in Threads : Dial(t) \/ Redial(t) \/ Close(t) \/ ThreadStep(t)
    \/ \E m \in Muxes : WatcherStep(m) \/ PeerHup(m)

Spec == Init /\ [][Next]_vars

\* the scheduler runs every task that can take a step
FairSpec ==
    /\ Spec
    /\ \A t \in Threads : WF_vars(ThreadStep(t))
    /\ \A m \in Muxes : WF_vars(WatcherStep(m))

SpecEnv == Init /\ [][NextEnv]_vars

\* the steps of an envelope's background task
TaskStep ==
    \/ DircallSend \/ DircallRecv \/ DircallReply
    \/ ErrcallSend \/ ErrcallRecv \/ ErrcallReply
    \/ GetSend \/ GetRecv \/ GetForward \/ GetClose
    \/ PutSend \/ PutCloseOut \/ PutData \/ PutDataEnd \/ PutRecv \/ PutReply
    \/ FindSend \/ FindRecv \/ FindForward \/ FindClose
    \/ FindGetSend \/ FindGetRecv \/ FindGetForward \/ FindGetClose

\* the scheduler runs the task whenever it can take a step
FairSpecEnv == SpecEnv /\ WF_vars(TaskStep)

\* One client thread running Dial / Redial / Close, with Fsys and the
\* operations called on the handles at any moment.
FsysThreads == {1}

NextFsys ==
    \/ \E t \in FsysThreads : Dial(t) \/ Redial(t) \/ Close(t) \/ ThreadStep(t)
    \/ \E m \in Muxes : WatcherStep(m) \/ PeerHup(m)
    \/ Fsys
    \/ Request

SpecFsys == Init /\ [][NextFsys]_vars

\* ------------------------------------------------- FillAddr and splitaddr
\* Addresses given to FillAddr: "a" and "b" stand for stretches of
\* characters other than "!"; an address may be empty and may have empty
\* tokens.
AddrSyms == {"a", "b", "!"}
Addrs == UNION {[1..k -> AddrSyms] : k \in 0..MaxAddrLen}

\* addr = FillAddr(addr), Dial line 94, for one call and any address
CallFillAddr ==
    /\ fa.step = "none"
    /\ \E a \in Addrs :
          fa' = [NoCall EXCEPT !.addr = a, !.filled = FillAddr(a), !.step = "filled"]
    /\ UNCHANGED <<envVars, lifeVars, dlk, gt, au>>

\* addr, fsys := splitaddr(addr), Dial line 99
CallSplitaddr ==
    /\ fa.step = "filled"
    /\ LET r == splitaddr(fa.filled)
       IN fa' = [fa EXCEPT !.step = "split", !.ok = r.ok, !.conn = r.conn,
                           !.tree = r.tree]
    /\ UNCHANGED <<envVars, lifeVars, dlk, gt, au>>

NextAddr == CallFillAddr \/ CallSplitaddr

SpecAddr == Init /\ [][NextAddr]_vars

\* ------------------------------------------------- the dial-cache mutex
\* Dial, Redial and the watcher with dialslk.Lock() and dialslk.Unlock() as
\* steps of their own: the holder is a thread, or a watcher numbered after
\* the threads.
WId(m) == NThreads + m

\* dialed, line 50: dialslk.Lock()
DialedLock(t) ==
    /\ At(t, "idle")
    /\ FirstIdle(t)
    /\ dlk = 0
    /\ dlk' = t
    /\ Goto(t, "dial.dialed")
    /\ res' = NoRes
    /\ UNCHANGED <<envVars, fa, gt, au, hs, mux, nmux, cw, dials, th, wpc, wst, est,
                   returned, crashed>>

\* dialed, lines 51-53: fs, ok := dials[addr]; return (dialslk.Unlock()
\* deferred); then Dial lines 95-113 as in Dial(t)
DialedRead(t) ==
    /\ At(t, "dial.dialed")
    /\ dlk = t
    /\ dlk' = 0
    /\ \E a \in DialAddrs :
          LET addr == FillAddr(a)
          IN IF dialed(addr).ok
             THEN /\ res' = [kind |-> "Dial", h |-> dialed(addr).fs, err |-> NoErr,
                               hit |-> TRUE]
                  /\ returned' = returned \cup {dialed(addr).fs}
                  /\ Goto(t, "idle")
                  /\ UNCHANGED <<hs, cw, th, crashed>>
             ELSE IF ~splitaddr(addr).ok
             THEN /\ crashed' = TRUE
                  /\ res' = NoRes
                  /\ UNCHANGED <<hs, cw, tpc, th, returned>>
             ELSE /\ hs' = [hs EXCEPT ![NewHandle] = NewFs(addr, NewCw)]
                  /\ cw' = [cw EXCEPT ![NewCw] = 0]
                  /\ th' = [th EXCEPT ![t] = [Locals0 EXCEPT !.h = NewHandle, !.fromDial = TRUE]]
                  /\ Goto(t, "redial.lock")
                  /\ res' = NoRes
                  /\ UNCHANGED <<returned, crashed>>
    /\ UNCHANGED <<envVars, fa, gt, au, mux, nmux, dials, wpc, wst, est>>

\* Redial, line 167: dialslk.Lock()
RedialDialsLock(t) ==
    /\ At(t, "redial.install")
    /\ dlk = 0
    /\ dlk' = t
    /\ Goto(t, "redial.insert")
    /\ res' = NoRes
    /\ UNCHANGED <<envVars, fa, gt, au, hs, mux, nmux, cw, dials, th, wpc, wst, est,
                   returned, crashed>>

\* Redial, lines 168-182: dials[fs.raddr] = fs; dialslk.Unlock(); start the
\* watcher; return nil (and the deferred fs.Unlock())
RedialInsert(t) ==
    /\ At(t, "redial.insert")
    /\ dlk = t
    /\ dlk' = 0
    /\ dials' = [dials EXCEPT ![hs[th[t].h].raddr] = th[t].h]
    /\ wpc' = [wpc EXCEPT ![th[t].m] = "hup"]
    /\ wst' = [wst EXCEPT ![th[t].m] = [h |-> th[t].h, closewc |-> hs[th[t].h].closewc]]
    /\ hs' = [hs EXCEPT ![th[t].h].lock = 0]
    /\ Return(t, NoErr)
    /\ UNCHANGED <<envVars, fa, gt, au, mux, nmux, cw, est, crashed>>

\* WatcherDialsLock moved before the watcher's fs.Lock(): dialslk is taken
\* as soon as the mux hangs up
WatcherDialsLockEarly(m) ==
    /\ ~crashed
    /\ wpc[m] = "hup"
    /\ Hup(m)
    /\ dlk = 0
    /\ dlk' = WId(m)
    /\ res' = NoRes
    /\ UNCHANGED <<envVars, fa, gt, au, hs, mux, nmux, cw, dials, tpc, th, wpc, wst, est,
                   returned, crashed>>

\* the watcher, line 176: dialslk.Lock()
WatcherDialsLock(m) ==
    /\ ~crashed
    /\ wpc[m] = "evict"
    /\ dlk = 0
    /\ dlk' = WId(m)
    /\ res' = NoRes
    /\ UNCHANGED <<envVars, fa, gt, au, hs, mux, nmux, cw, dials, tpc, th, wpc, wst, est,
                   returned, crashed>>

\* the watcher, lines 177-179: delete(dials, fs.raddr); dialslk.Unlock();
\* close(closewc)
WatcherDelete(m) ==
    /\ ~crashed
    /\ wpc[m] = "evict"
    /\ dlk = WId(m)
    /\ dlk' = 0
    /\ dials' = [dials EXCEPT ![hs[wst[m].h].raddr] = 0]
    /\ cw' = [cw EXCEPT ![wst[m].closewc] = @ + 1]
    /\ wpc' = [wpc EXCEPT ![m] = "done"]
    /\ res' = NoRes
    /\ UNCHANGED <<envVars, fa, gt, au, hs, mux, nmux, tpc, th, wst, est, returned, crashed>>

LockThreadStep(t) ==
    \/ DialedRead(t)
    \/ RedialLock(t) \/ RedialWait(t) \/ RedialReset(t)
    \/ RedialConnect(t) \/ RedialTrees(t) \/ RedialPublish(t)
    \/ RedialDialsLock(t) \/ RedialInsert(t)

LockWatcherStep(m) ==
    \/ WatcherHup(m) \/ WatcherDialsLock(m) \/ WatcherDelete(m)

NextLock ==
    \/ \E t \in Threads : DialedLock(t) \/ Redial(t) \/ LockThreadStep(t)
    \/ \E m \in Muxes : LockWatcherStep(m) \/ PeerHup(m)

SpecLock == Init /\ [][NextLock]_vars

\* ------------------------------------------------------- tree discovery
\* getTrees as a task on the halves of its call, with the server's replies
\* arriving while it runs.
\* m := &Msg{Op: Ttrees, Fsys: "main"}
TreesReq == [t |-> "Ttrees", v |-> 0, e |-> "nil", fsys |-> <<"main">>]
\* the tree a string reply names
TreeName(v) == IF v = 0 THEN <<"main">> ELSE IF v = 1 THEN <<"work">> ELSE <<"home">>
\* what a server may answer to Ttrees, message by message
TreeInMsgs == {Msg("str", 0), Msg("str", 1), Msg("str", 2), Msg("dir", 1)}
\* fs.trees when Redial calls getTrees: empty for the handle Dial has just
\* built, what earlier discoveries left otherwise
KnownBefore == {{}, {<<"main">>}, {<<"main">>, <<"work">>}}

\* Redial line 153: err = fs.getTrees(), c := fs.m.Rpc() (line 190)
GetTreesCall ==
    /\ pc = "idle"
    /\ op' = "Ttrees"
    /\ pc' = "trees.send"
    /\ \E known \in KnownBefore : gt' = [NoTrees EXCEPT !.trees = known]
    /\ UNCHANGED <<lifeVars, fa, dlk, au, cout, cin, inHist, rc, got, rcCloseLog, dcCaller,
                   dcHist, dcLocal, dtype, held, lerr>>

\* lines 193-198: if ok := c.Out <- m; !ok { err := cerror(c.Out);
\* close(c.In, err); return err }; close(c.Out)
TreesSend ==
    /\ pc = "trees.send"
    /\ IF SendOk(cout)
       THEN /\ cout' = ChClose(AfterSend(cout, TreesReq), "nil")
            /\ pc' = "trees.loop"
            /\ UNCHANGED <<cin, gt>>
       ELSE /\ cin' = ChClose(cin, cerror(cout))
            /\ gt' = [gt EXCEPT !.ret = cerror(cout)]
            /\ pc' = "trees.ret"
            /\ cout' = cout
    /\ UNCHANGED <<lifeVars, fa, dlk, au, op, inHist, rc, got, rcCloseLog, dcCaller, dcHist,
                   dcLocal, dtype, held, lerr>>

\* lines 199-208: for m := range c.In: a string is added to fs.trees, any
\* other message closes c.In with ErrBadMsg and returns it
TreesRecv ==
    /\ pc = "trees.loop"
    /\ CanRecv(cin)
    /\ IF ~RecvOk(cin)
       THEN /\ pc' = "trees.end"
            /\ UNCHANGED <<cin, gt>>
       ELSE IF RecvMsg(cin).t # "str"
       THEN /\ cin' = ChClose(AfterRecv(cin), ErrBadMsg)
            /\ gt' = [gt EXCEPT !.ret = ErrBadMsg]
            /\ pc' = "trees.ret"
       ELSE /\ cin' = AfterRecv(cin)
            /\ gt' = [gt EXCEPT !.trees = @ \cup {TreeName(RecvMsg(cin).v)}]
            /\ pc' = pc
    /\ UNCHANGED <<lifeVars, fa, dlk, au, op, cout, inHist, rc, got, rcCloseLog, dcCaller,
                   dcHist, dcLocal, dtype, held, lerr>>

\* TreesEnd without line 209
TreesEndNoMain ==
    /\ pc = "trees.end"
    /\ gt' = [gt EXCEPT !.ret = cerror(cin)]
    /\ pc' = "trees.ret"
    /\ UNCHANGED <<lifeVars, fa, dlk, au, op, cout, cin, inHist, rc, got, rcCloseLog,
                   dcCaller, dcHist, dcLocal, dtype, held, lerr>>

\* lines 209-210: fs.trees["main"] = true; return cerror(c.In)
TreesEnd ==
    /\ pc = "trees.end"
    /\ gt' = [gt EXCEPT !.trees = @ \cup {<<"main">>}, !.ret = cerror(cin)]
    /\ pc' = "trees.ret"
    /\ UNCHANGED <<lifeVars, fa, dlk, au, op, cout, cin, inHist, rc, got, rcCloseLog,
                   dcCaller, dcHist, dcLocal, dtype, held, lerr>>

\* Redial lines 153-159: if err != nil { m.Close(); return err }
TreesReturn ==
    /\ pc = "trees.ret"
    /\ gt' = [gt EXCEPT !.redial = IF gt.ret # "nil" THEN gt.ret ELSE "continues"]
    /\ pc' = "done"
    /\ UNCHANGED <<lifeVars, fa, dlk, au, op, cout, cin, inHist, rc, got, rcCloseLog,
                   dcCaller, dcHist, dcLocal, dtype, held, lerr>>

\* the server's next reply to Ttrees arrives on the inbound half
TreesDeliver ==
    /\ op = "Ttrees"
    /\ RequestOut
    /\ ~cin.closed
    /\ Len(inHist) < MaxIn
    /\ \E m \in TreeInMsgs :
          /\ cin' = AfterSend(cin, m)
          /\ inHist' = Append(inHist, m)
    /\ UNCHANGED <<lifeVars, otherVars, op, pc, cout, rc, got, rcCloseLog, dcCaller, dcHist,
                   dcLocal, dtype, held, lerr>>

NextTrees ==
    \/ GetTreesCall
    \/ TreesSend \/ TreesRecv \/ TreesEnd \/ TreesReturn
    \/ TreesDeliver \/ MuxCloseIn \/ MuxCloseOut

SpecTrees == Init /\ [][NextTrees]_vars

\* -------------------------------------------- package ink: the auth wrappers
\* Text is a sequence of pieces: the word "totp", some other text "a", or
\* the separator ":". A cookie value has at most MaxCookieLen pieces.
MaxCookieLen == 5

CookieChars == {"totp", "a", ":"}

CookieValues == UNION {[1..n -> CookieChars] : n \in 0..MaxCookieLen}

\* the (challenge, response) and (user, code) pairs the checks of package
\* auth may accept: the auth state holds a subset of each
CrPairs == {<< <<"a">>, <<"a">> >>, << <<"totp">>, <<"a">> >>}

TotpPairs == {<< <<"a">>, <<"a">> >>}

\* what websocket.Origin finds in the request: no Origin header (a nil
\* origin and no error), a header that does not parse, or a usable origin
Origins == {"none", "bad", "ok"}

\* strings.SplitN(s, ":", n) for n > 0: at most n fields, the last one keeps
\* the rest of s with its separators; the empty text gives one empty field
RECURSIVE SplitN(_, _)
SplitN(s, n) ==
    IF n = 1 \/ \A i \in 1..Len(s) : s[i] # ":"
    THEN <<s>>
    ELSE LET i == CHOOSE k \in 1..Len(s) :
                     s[k] = ":" /\ \A j \in 1..(k - 1) : s[j] # ":"
         IN <<SubSeq(s, 1, i - 1)>> \o SplitN(SubSeq(s, i + 1, Len(s)), n - 1)

\* auth.ChallengeResponseOk("wax", ch, resp)
ChallengeResponseOk(a, ch, resp) == <<ch, resp>> \in a.cr

\* auth.TotpOk("wax", user, code)
TotpOk(a, user, code) == <<user, code>> \in a.totp

\* checkOrigin: the error the handshake reports ("nil": none)
checkOrigin(a) ==
    CASE a.origin = "ok"   -> "nil"
      [] a.origin = "none" -> "null origin"
      [] OTHER             -> "bad origin"

\* the websocket server made at the end of AuthWebSocketHandler: it runs the
\* handshake and then, if that reported no error, the handler h
ServeWebSocket(a) == IF checkOrigin(a) = "nil" THEN "h" ELSE "handshake403"

\* what AuthHandler's function does with a request: "fn" (the wrapped
\* handler runs) or "authFailed"
AuthHandlerOut(a) ==
    IF ~a.tls \/ ~a.enabled THEN "fn"
    ELSE IF ~a.has THEN "authFailed"
    ELSE LET toks == SplitN(a.value, 3)
         IN CASE Len(toks) = 3 ->
                    IF toks[1] # <<"totp">> THEN "authFailed"
                    ELSE IF ~TotpOk(a, toks[2], toks[3]) THEN "authFailed"
                    ELSE "fn"
              [] Len(toks) = 2 ->
                    IF ~ChallengeResponseOk(a, toks[1], toks[2]) THEN "authFailed"
                    ELSE "fn"
              [] OTHER -> "authFailed"

\* AuthWebSocketHandler without the check of the first field
AuthWebSocketOutAnyThree(a) ==
    IF a.tls /\ a.enabled /\ ~a.has THEN "403"
    ELSE IF a.tls /\ a.enabled
    THEN LET toks == SplitN(a.value, 3)
         IN CASE Len(toks) = 3 ->
                    IF ~TotpOk(a, toks[2], toks[3]) THEN "403"
                    ELSE ServeWebSocket(a)
              [] Len(toks) = 2 ->
                    IF ~ChallengeResponseOk(a, toks[1], toks[2]) THEN "403"
                    ELSE ServeWebSocket(a)
              [] OTHER -> "403"
    ELSE ServeWebSocket(a)

\* what AuthWebSocketHandler's function does with a request: "403" (auth
\* failed), or what the websocket server does with it
AuthWebSocketOut(a) ==
    IF a.tls /\ a.enabled /\ ~a.has THEN "403"
    ELSE IF a.tls /\ a.enabled
    THEN LET toks == SplitN(a.value, 3)
         IN CASE Len(toks) = 3 ->
                    IF toks[1] # <<"totp">> THEN "403"
                    ELSE IF ~TotpOk(a, toks[2], toks[3]) THEN "403"
                    ELSE ServeWebSocket(a)
              [] Len(toks) = 2 ->
                    IF ~ChallengeResponseOk(a, toks[1], toks[2]) THEN "403"
                    ELSE ServeWebSocket(a)
              [] OTHER -> "403"
    ELSE ServeWebSocket(a)

\* a request arrives: its "clive" cookie (if any), its origin, and the auth
\* state of the server at that moment
HttpRequest ==
    /\ au.step = "none"
    /\ \E tls \in BOOLEAN, enabled \in BOOLEAN, cr \in SUBSET CrPairs,
          totp \in SUBSET TotpPairs, has \in BOOLEAN, value \in CookieValues,
          origin \in Origins :
          /\ has \/ value = <<>>
          /\ au' = [step |-> "req", tls |-> tls, enabled |-> enabled, cr |-> cr,
                    totp |-> totp, has |-> has, value |-> value, origin |-> origin,
                    http |-> "none", ws |-> "none"]
    /\ UNCHANGED <<envVars, lifeVars, fa, dlk, gt>>

\* the function AuthHandler returned serves the request
AuthHandler ==
    /\ au.step = "req"
    /\ au.http = "none"
    /\ au' = [au EXCEPT !.http = AuthHandlerOut(au)]
    /\ UNCHANGED <<envVars, lifeVars, fa, dlk, gt>>

\* the function AuthWebSocketHandler returned serves the request
AuthWebSocketHandler ==
    /\ au.step = "req"
    /\ au.ws = "none"
    /\ au' = [au EXCEPT !.ws = AuthWebSocketOut(au)]
    /\ UNCHANGED <<envVars, lifeVars, fa, dlk, gt>>

NextAuth == HttpRequest \/ AuthHandler \/ AuthWebSocketHandler

SpecAuth == Init /\ [][NextAuth]_vars

\* ------------------------------------------------------------------ claims
\* C1: every envelope's result channel is eventually closed, also when the
\* outbound half rejects the request. If it were, the result channel would
\* be closed whenever the envelope's task has ended, since nothing but the
\* task closes it for the caller.
C1_ResultClosedAtEnd == (pc = "done") => rc.closed

\* C2: no envelope closes its result channel more than once: the reasons it
\* has passed to close(rc, ...) are at most one.
C2_ClosedOnce == Len(rcCloseLog) <= 1

\* C3: a Redial on an open handle whose hangup watcher is running, having
\* closed the mux and waiting on the close-wait signal, eventually returns.
C3_RedialReturns ==
    \A t \in Threads :
        (/\ tpc[t] = "redial.wait"
         /\ wpc[hs[th[t].h].m] = "hup")
        ~> (tpc[t] = "idle" \/ crashed)

\* C4: at no time are two distinct handles open for one raw address.
C4_OneOpenHandlePerAddress ==
    \A h1, h2 \in Handles :
        (~hs[h1].closed /\ ~hs[h2].closed /\ hs[h1].raddr = hs[h2].raddr)
            => h1 = h2

\* C5: a Dial answered from the cache returns the identical handle an
\* earlier successful Dial of the same completed address returned, as long
\* as that handle is open and its mux has not hung up or been closed.
C5_CachedDialSameHandle ==
    (res.kind = "Dial" /\ res.hit) =>
        \A h \in returned :
            (/\ hs[h].raddr = hs[res.h].raddr
             /\ ~hs[h].closed
             /\ hs[h].m # 0
             /\ mux[hs[h].m] = "open") => h = res.h

\* C6: a handle is the cache's entry under its raw address exactly if its
\* closed bit is false; stated for the states at rest, where no Dial or
\* Redial is running and no watcher has a hangup to handle.
C6_CachedIffOpen ==
    (/\ \A t \in Threads : tpc[t] = "idle"
     /\ \A m \in Muxes : wpc[m] # "evict" /\ (wpc[m] = "hup" => ~Hup(m)))
    => \A h \in Handles :
          hs[h] # NoFs => (Cached(h) <=> ~hs[h].closed)

\* C7: after the mux of an open handle hangs up while no Redial holds the
\* handle, the handle is eventually marked closed and is not the cache's
\* entry under its raw address.
C7_HangupEvicts ==
    \A h \in Handles :
        (~hs[h].closed /\ hs[h].lock = 0 /\ hs[h].m # 0 /\ Hup(hs[h].m))
        ~> ((hs[h].closed /\ ~Cached(h)) \/ crashed)

\* C8: after Close returned on an open handle, the handle is eventually
\* marked closed and removed from the cache.
C8_CloseEvicts ==
    \A h \in Handles :
        (res.kind = "Close" /\ res.h = h /\ ~hs[h].closed /\ hs[h].m # 0)
        ~> ((hs[h].closed /\ ~Cached(h)) \/ crashed)

C10_AuthDisabledIsWarning ==
    [][\A t \in Threads :
         /\ (tpc[t] = "redial.connect" /\ tpc'[t] # "redial.connect"
                /\ nmux' = nmux + 1) =>
               \/ /\ tpc'[t] = "redial.trees"
                  /\ mux'[nmux'] = "open"
                  /\ \/ th'[t].err = <<>> /\ th'[t].ai # 0
                     \/ /\ Contains(th'[t].err, AuthDisabled)
                        /\ th'[t].ai = 0
                        /\ hs'[th[t].h].ai = 0
               \/ /\ tpc'[t] = "idle"
                  /\ res'.kind = (IF th[t].fromDial THEN "Dial" ELSE "Redial")
                  /\ res'.err.text # <<>>
                  /\ ~Contains(res'.err.text, AuthDisabled)
                  /\ res'.err.prefix = hs[th[t].h].addr
                  /\ mux'[nmux'] = "down"
                  /\ th[t].fromDial => res'.h = 0
         /\ (tpc[t] = "redial.install" /\ tpc'[t] = "idle" /\ th[t].ai = 0) =>
               /\ res'.err = NoErr
               /\ res'.h = th[t].h
               /\ ~hs'[th[t].h].closed
               /\ hs'[th[t].h].ai = 0
      ]_vars

\* C10 witness: a call has just failed with an error prefixed by a
\* connection address while a handle dialed with authentication disabled is
\* open with a null context
C10_Witness ==
    /\ res.err.prefix # <<>>
    /\ \E h \in returned : ~hs[h].closed /\ hs[h].ai = 0 /\ hs[h].m # 0

\* C11: every open handle, made by Dial / Redial or by Fsys, is selected on
\* "main" or on a member of its known-trees set.
C11_SelectedTreeKnown ==
    \A h \in Handles :
        (hs[h] # NoFs /\ ~hs[h].closed) =>
            (hs[h].fsys = <<"main">> \/ hs[h].fsys \in hs[h].trees)

\* C11 witness: an open handle made by Fsys and selected on "work", next to
\* the open handle it was made from, selected on "main".
C11_Witness ==
    \E h \in Copies :
        /\ ~hs[h].closed /\ hs[h].fsys = <<"work">>
        /\ ~hs[hs[h].tm].closed /\ hs[hs[h].tm].fsys = <<"main">>

\* C12: a Redial, first or later, goes on past its tree discovery only if
\* the handle's selected tree is among the trees the server reported during
\* that discovery ("main" counted as reported); otherwise it fails.
C12_MissingTreeFails ==
    \A t \in Threads :
        tpc[t] \in {"redial.publish", "redial.install"} =>
            hs[th[t].h].fsys \in th[t].served

C14_InboundErrorVerbatim ==
    (/\ pc = "done" /\ RequestOut
     /\ cin.closed /\ cin.err \in {"i/o error", "server error"}
     /\ ~(rc.closed /\ rc.err = "cancelled"))
    => /\ rc.closed /\ rc.err = cin.err
       /\ op \notin {"Tget", "Tfind", "Tfindget"} =>
             \A m \in {got[i] : i \in 1..Len(got)} \cup {rc.buf[i] : i \in 1..Len(rc.buf)} :
                 m = ErrMsg(cin.err)

\* C14 amended: when an envelope whose request was sent finds the inbound
\* half closed with a non-nil terminal error E, at the point where it reads
\* the reply (dircall, errcall, Put) or where its stream loop ends (Get,
\* Find, FindGet), it closes the result channel with exactly E and gives the
\* caller no reply value: errcall sends E itself. The close reason is
\* another one only if the result channel was closed before: by the caller,
\* or by the envelope on a reply of the wrong type.
C14_ObservedInboundError ==
    [][/\ (pc \in {"dircall.reply", "put.reply"} /\ pc' = "done"
           /\ lerr \in {"i/o error", "server error"}) =>
              /\ rc'.closed /\ rc'.buf = rc.buf
              /\ rc.closed \/ rc'.err = lerr
       /\ (pc = "errcall.reply" /\ pc' = "done"
           /\ lerr \in {"i/o error", "server error"}) =>
              /\ rc'.closed
              /\ \/ rc.closed /\ rc'.buf = rc.buf
                 \/ rc'.buf = Append(rc.buf, ErrMsg(lerr)) /\ rc'.err = lerr
       /\ (pc \in {"get.fin", "find.fin", "findget.fin"} /\ pc' = "done"
           /\ cin.closed /\ cin.err \in {"i/o error", "server error"}) =>
              /\ rc'.closed /\ rc'.buf = rc.buf /\ got' = got
              /\ rc.closed \/ rc'.err = cin.err]_vars

\* C14 witness: a Stat whose request went out ended on "server error" with
\* nothing delivered, and the result channel is closed with that error.
C14_Witness ==
    /\ pc = "done" /\ op = "Tstat" /\ RequestOut
    /\ lerr = "server error" /\ cin.err = "server error"
    /\ rc.closed /\ rc.err = "server error" /\ rc.buf = <<>> /\ got = <<>>

\* C15: in every envelope, when the outbound half rejects the request, the
\* envelope closes the call's inbound half with the outbound half's terminal
\* error and its task ends in that step, without a receive from the inbound
\* half: nothing is taken from it. (An inbound half that was closed before
\* keeps the reason it had.)
C15_RejectedRequestClosesInbound ==
    [][(/\ pc \in {"dircall.send", "errcall.send", "get.send", "put.send",
                    "find.send", "findget.send"}
        /\ pc' # pc
        /\ ~SendOk(cout))
       => /\ pc' = "done"
          /\ cin'.closed /\ cin'.buf = cin.buf
          /\ ~cin.closed => cin'.err = cerror(cout)
          /\ cin.closed => cin' = cin
          /\ cout' = cout /\ held' = held]_vars

\* C15 witness: the request of a FindGet was rejected by an outbound half
\* the transport had closed; the task is over and the inbound half is
\* closed with the transport's error.
C15_Witness ==
    /\ pc = "done" /\ op = "Tfindget" /\ ~RequestOut
    /\ cout.closed /\ cout.err = "i/o error"
    /\ cin.closed /\ cin.err = "i/o error" /\ inHist = <<>>

\* C16: Fsys(name) on a handle returns a new handle selected on name, and
\* no error, exactly when name is "main" or is in the handle's known-trees
\* set; otherwise it returns no handle and the error "no fsys 'name'". In
\* both cases every handle there was, the one Fsys was called on included,
\* keeps its selected tree, mux, authentication context, closed bit and
\* known-trees set, and the dial cache and the muxes are unchanged. The new
\* handle has the mux, authentication context and known-trees set of the
\* original.
C16_FsysReturnsAndFrame ==
    [][res'.kind = "Fsys" =>
         LET h == res'.of
             name == res'.name
             known == name = <<"main">> \/ name \in hs[h].trees
         IN /\ h \in returned
            /\ known <=> res'.h # 0
            /\ known =>
                 /\ res'.err = NoErr
                 /\ hs[res'.h] = NoFs
                 /\ hs'[res'.h].fsys = name
                 /\ hs'[res'.h].m = hs[h].m /\ hs'[res'.h].ai = hs[h].ai
                 /\ hs'[res'.h].trees = hs[h].trees
                 /\ hs'[res'.h].closed = hs[h].closed
            /\ ~known =>
                 res'.err = [text |-> <<"no fsys">>, prefix |-> <<>>, arg |-> name]
            /\ \A k \in Handles : hs[k] # NoFs => hs'[k] = hs[k]
            /\ dials' = dials /\ mux' = mux]_vars

\* C16 witness: Fsys("work") has just returned a new handle for an open
\* handle selected on "main", which is still selected on "main" and cached.
C16_Witness ==
    /\ res.kind = "Fsys" /\ res.h # 0 /\ res.name = <<"work">>
    /\ hs[res.h].fsys = <<"work">>
    /\ hs[res.of].fsys = <<"main">> /\ ~hs[res.of].closed /\ Cached(res.of)

\* C17: an operation started on a handle whose mux was torn down (by Close
\* on the handle or on a handle Fsys made from it, which refers to the same
\* mux) fails with a terminal error: once its request was rejected by the
\* outbound half and its task is over, the result channel is closed with a
\* non-nil reason.
C17_OpOnClosedMuxFails ==
    (pc = "done" /\ ~RequestOut /\ cout.closed /\ cout.err = "i/o error")
    => (rc.closed /\ rc.err # "nil")

\* C18: every request message carries the selected tree of the handle the
\* operation was called on, the tree the handle was made for by Dial or by
\* Fsys, whatever was done with other handles in between: a request from a
\* handle made by Fsys("work") carries "work", a request from the handle it
\* was made from, selected on "main", carries "main".
C18_RequestCarriesSelectedTree ==
    res.kind = "Request" =>
        /\ res.fsys = hs[res.h].sel
        /\ \A k \in Handles :
              (hs[k] # NoFs /\ k \in returned) => hs[k].fsys = hs[k].sel

\* C18 witness: a handle made by Fsys("work") from a handle selected on
\* "main" has just sent a request carrying "work" on the mux, up, that both
\* handles refer to.
C18_Witness ==
    /\ res.kind = "Request" /\ res.h \in Copies /\ res.fsys = <<"work">> /\ res.up
    /\ hs[hs[res.h].tm].fsys = <<"main">> /\ hs[hs[res.h].tm].m = res.m

\* C19: FillAddr maps an address by its number of tokens, one more than its
\* number of "!": one token h gives tcp!h!zx!main, two tokens h!p give
\* tcp!h!p!main, three tokens n!h!p give n!h!p!main, four or more tokens
\* are returned unchanged.
C19_FillAddrByTokens ==
    fa.step # "none" =>
        LET a == fa.addr
            n == Cardinality({i \in 1..Len(a) : a[i] = "!"})
        IN fa.filled =
             CASE n = 0 -> <<"tcp", "!">> \o a \o <<"!", "zx", "!", "main">>
               [] n = 1 -> <<"tcp", "!">> \o a \o <<"!", "main">>
               [] n = 2 -> a \o <<"!", "main">>
               [] OTHER -> a

\* C19 witness: the two-token address a!b was completed to tcp!a!b!main.
C19_Witness ==
    /\ fa.addr = <<"a", "!", "b">>
    /\ fa.filled = <<"tcp", "!", "a", "!", "b", "!", "main">>

\* C20: for every address a, FillAddr(FillAddr(a)) = FillAddr(a), FillAddr(a)
\* has at least four tokens, and splitaddr(FillAddr(a)) does not take the
\* fatal path and returns (conn, tree) where tree is the last token (it has
\* no "!" and ends the address) and conn + "!" + tree is FillAddr(a).
C20_FilledAddrSplits ==
    fa.step = "split" =>
        LET f == fa.filled
        IN /\ FillAddr(f) = f
           /\ Cardinality({i \in 1..Len(f) : f[i] = "!"}) >= 3
           /\ fa.ok
           /\ \A i \in 1..Len(fa.tree) : fa.tree[i] # "!"
           /\ fa.conn \o <<"!">> \o fa.tree = f

\* C20 witness: the one-token address a was completed and split into the
\* connection address tcp!a!zx and the tree main.
C20_Witness ==
    /\ fa.step = "split" /\ fa.addr = <<"a">> /\ fa.ok
    /\ fa.conn = <<"tcp", "!", "a", "!", "zx">> /\ fa.tree = <<"main">>

\* C21: once a Put with a directory entry of type "d" has got past its
\* first step, the data channel the caller supplied is closed, so that a
\* producer sending on it is not left blocked.
C21_DirPutClosesCallerData ==
    (op = "Tput" /\ dtype = "d" /\ dcCaller # NoChan /\ pc \notin {"idle", "put.send"})
    => dcCaller.closed

\* C22: in a Put on a file, when the envelope finds the data channel closed
\* by the caller with a non-nil error E, in that step it closes the outbound
\* half with E, closes the inbound half and the result channel with E,
\* publishes no directory entry and ends without a receive from the inbound
\* half. (A channel that was closed before keeps the reason it had.)
C22_DataErrorAborts ==
    [][(/\ pc = "put.data" /\ pc' # pc
        /\ DcChan.closed /\ ~RecvOk(DcChan) /\ cerror(DcChan) # "nil")
       => LET E == cerror(DcChan)
          IN /\ pc' = "done"
             /\ cout'.closed /\ (~cout.closed => cout'.err = E) /\ cout'.buf = cout.buf
             /\ cin'.closed /\ (~cin.closed => cin'.err = E) /\ cin'.buf = cin.buf
             /\ rc'.closed /\ (~rc.closed => rc'.err = E) /\ rc'.buf = rc.buf
             /\ got' = got /\ held' = held]_vars

\* C22 witness: a Put on a file whose producer sent a chunk and then closed
\* the data channel with an error has ended; outbound half, inbound half
\* and result channel are closed with that error and nothing was published.
C22_Witness ==
    /\ pc = "done" /\ op = "Tput" /\ dtype = "-" /\ Len(dcHist) = 1
    /\ dcCaller.closed /\ dcCaller.err = "data error"
    /\ cout.closed /\ cout.err = "data error" /\ Len(cout.buf) = 2
    /\ cin.closed /\ cin.err = "data error"
    /\ rc.closed /\ rc.err = "data error" /\ rc.buf = <<>> /\ got = <<>>

\* C23: the outbound half of a Put carries the header message first and
\* then the caller's chunks, unmodified and in the caller's order: at any
\* time a prefix of them. For a file with a data channel, once the caller
\* has closed the data channel without error and the envelope has gone on to
\* the reply, the outbound half holds the header and exactly the caller's
\* chunks and is closed, without error unless the transport had failed under
\* it. For type "d" or no data channel it holds only the header, and is
\* closed by then.
C23_PutOutboundStream ==
    op = "Tput" =>
        LET hdr == <<ReqMsg("Tput")>>
            file == dtype = "-" /\ dcCaller # NoChan
            sent == IF file THEN hdr \o dcHist ELSE hdr
        IN /\ Len(cout.buf) <= Len(sent)
           /\ cout.buf = SubSeq(sent, 1, Len(cout.buf))
           /\ pc \in {"put.recv", "put.reply"} =>
                 /\ cout.buf = sent
                 /\ cout.closed
                 /\ cout.err # "i/o error" => cout.err = "nil"
                 /\ file => dcCaller.closed /\ dcCaller.err = "nil"

\* C23 witness: a Put on a file whose producer sent two chunks and closed
\* the data channel is waiting for the reply; the outbound half holds the
\* header and the two chunks and is closed without error.
C23_Witness ==
    /\ op = "Tput" /\ pc = "put.recv" /\ dtype = "-" /\ Len(dcHist) = 2
    /\ cout.buf = <<ReqMsg("Tput")>> \o dcHist
    /\ cout.closed /\ cout.err = "nil"

\* C24 as stated: what Get's result channel has been given is, unmodified
\* and in order, a prefix of the inbound message sequence, with nothing from
\* the first non-byte message on; once the envelope has ended, the caller
\* not having cancelled, it is the whole sequence if every inbound message
\* was a byte chunk, and otherwise ErrBadMsg is the close reason of both the
\* inbound half and the result channel.
C24_GetStreamBadMsgReasons ==
    op = "Tget" =>
        LET D == got \o rc.buf
            bad == {i \in 1..Len(inHist) : inHist[i].t # "bytes"}
            cancelled == rc.closed /\ rc.err = "cancelled"
        IN /\ Len(D) <= Len(inHist)
           /\ D = SubSeq(inHist, 1, Len(D))
           /\ \A i \in bad : Len(D) < i
           /\ (pc = "done" /\ RequestOut /\ ~cancelled) =>
                 IF bad = {}
                 THEN D = inHist
                 ELSE /\ rc.closed /\ rc.err = ErrBadMsg
                      /\ cin.closed /\ cin.err = ErrBadMsg

\* C24 amended: as above, but for the inbound half: when the envelope takes
\* the first non-byte message it closes the inbound half and the result
\* channel with ErrBadMsg and leaves its loop, and ErrBadMsg is the close
\* reason of each unless it was closed before (the inbound half by the mux,
\* the result channel by the caller); in the end the result channel's
\* reason is ErrBadMsg and the inbound half is closed.
C24_GetStream ==
    [][/\ op' = "Tget" =>
            LET D == got' \o rc'.buf
                bad == {i \in 1..Len(inHist') : inHist'[i].t # "bytes"}
                cancelled == rc'.closed /\ rc'.err = "cancelled"
            IN /\ Len(D) <= Len(inHist')
               /\ D = SubSeq(inHist', 1, Len(D))
               /\ \A i \in bad : Len(D) < i
               /\ (pc' = "done" /\ cout'.buf # <<>> /\ ~cancelled) =>
                     IF bad = {}
                     THEN D = inHist'
                     ELSE rc'.closed /\ rc'.err = ErrBadMsg /\ cin'.closed
       /\ (pc = "get.loop" /\ pc' # pc /\ RecvOk(cin) /\ RecvMsg(cin).t # "bytes") =>
            /\ pc' = "get.fin"
            /\ cin'.closed /\ (~cin.closed => cin'.err = ErrBadMsg)
            /\ rc'.closed /\ (~rc.closed => rc'.err = ErrBadMsg)
            /\ rc'.buf = rc.buf /\ got' = got]_vars

\* C24 witness: a Get has ended after a byte chunk and then a directory
\* entry came in; the caller has the chunk alone and both channels are
\* closed with ErrBadMsg.
C24_Witness ==
    /\ op = "Tget" /\ pc = "done" /\ Len(inHist) = 2
    /\ inHist[1].t = "bytes" /\ inHist[2].t = "dir"
    /\ got = <<inHist[1]>> /\ rc.buf = <<>>
    /\ rc.closed /\ rc.err = ErrBadMsg /\ cin.closed /\ cin.err = ErrBadMsg

\* C25: in Get, Find and FindGet, when the envelope is at its forwarding
\* step and the caller has closed the result channel with a reason R, the
\* envelope forwards nothing more, closes the call's inbound half with R
\* (an inbound half the mux had closed keeps its reason) and leaves its
\* loop; and its task then comes to its end.
C25_CancelStopsStream ==
    /\ [][(/\ pc \in {"get.fwd", "find.fwd", "findget.fwd"}
            /\ pc' # pc
            /\ rc.closed)
           => /\ pc' \in {"get.fin", "find.fin", "findget.fin"}
              /\ cin'.closed /\ (~cin.closed => cin'.err = cerror(rc))
              /\ cin'.buf = cin.buf
              /\ rc' = rc /\ got' = got]_vars
    /\ [][(pc \in {"get.fin", "find.fin", "findget.fin"} /\ pc' # pc)
           => (pc' = "done" /\ rc'.buf = rc.buf /\ got' = got
               /\ cin' = cin)]_vars
    /\ ((pc \in {"get.fwd", "find.fwd", "findget.fwd"} /\ rc.closed)
            ~> (pc = "done"))

\* C25 witness: a Find whose caller cancelled while an entry was about to
\* be forwarded has ended; the entry was not delivered and the inbound half
\* is closed with the caller's reason.
C25_Witness ==
    /\ op = "Tfind" /\ pc = "done" /\ Len(inHist) = 1 /\ held = inHist[1]
    /\ rc.closed /\ rc.err = "cancelled" /\ got = <<>>
    /\ cin.closed /\ cin.err = "cancelled"

\* C26: what FindGet's caller has been given is, unmodified and in order, a
\* prefix of the inbound message sequence, whatever the messages' runtime
\* types; no channel of the envelope is ever closed with ErrBadMsg; and once
\* the envelope of a request that was sent has ended, the caller not having
\* cancelled, the caller has been given the whole inbound sequence and the
\* result channel is closed with the inbound half's terminal error.
C26_FindGetForwardsAll ==
    op = "Tfindget" =>
        /\ Len(got) <= Len(inHist)
        /\ got = SubSeq(inHist, 1, Len(got))
        /\ rc.buf = <<>>
        /\ cerror(rc) # ErrBadMsg /\ cerror(cin) # ErrBadMsg
        /\ \A i \in 1..Len(rcCloseLog) : rcCloseLog[i] # ErrBadMsg
        /\ (pc = "done" /\ RequestOut /\ ~(rc.closed /\ rc.err = "cancelled")) =>
              /\ got = inHist
              /\ cin.closed /\ rc.closed /\ rc.err = cin.err

\* C26 witness: a FindGet has ended after a directory entry and then a byte
\* chunk came in and the transport failed; the caller has both messages and
\* the result channel is closed with the transport's error.
C26_Witness ==
    /\ op = "Tfindget" /\ pc = "done" /\ Len(inHist) = 2
    /\ inHist[1].t = "dir" /\ inHist[2].t = "bytes" /\ got = inHist
    /\ cin.err = "i/o error" /\ rc.closed /\ rc.err = "i/o error"

\* C27: what Find's caller has been given is, in order, a prefix of the
\* inbound message sequence that stops before the first message that is not
\* a directory entry; when the envelope takes that message it delivers
\* nothing, closes the inbound half and the result channel with ErrBadMsg (a
\* channel closed before keeps its reason) and leaves its loop; once it has
\* ended, the caller not having cancelled, the caller has been given every
\* entry before that message, or every inbound message if all were entries,
\* and in the first case the result channel's close reason is ErrBadMsg.
C27_FindEntriesThenBadMsg ==
    [][/\ op' = "Tfind" =>
            LET bad == {i \in 1..Len(inHist') : inHist'[i].t # "dir"}
                cancelled == rc'.closed /\ rc'.err = "cancelled"
            IN /\ Len(got') <= Len(inHist')
               /\ got' = SubSeq(inHist', 1, Len(got'))
               /\ rc'.buf = <<>>
               /\ \A i \in bad : Len(got') < i
               /\ (pc' = "done" /\ cout'.buf # <<>> /\ ~cancelled) =>
                     IF bad = {}
                     THEN got' = inHist'
                     ELSE /\ \E k \in bad : Len(got') = k - 1
                          /\ rc'.closed /\ rc'.err = ErrBadMsg /\ cin'.closed
       /\ (pc = "find.loop" /\ pc' # pc /\ RecvOk(cin) /\ RecvMsg(cin).t # "dir") =>
            /\ pc' = "find.fin"
            /\ cin'.closed /\ (~cin.closed => cin'.err = ErrBadMsg)
            /\ rc'.closed /\ (~rc.closed => rc'.err = ErrBadMsg)
            /\ got' = got]_vars

\* C27 witness: a Find has ended after a directory entry and then a byte
\* chunk came in; the caller has the entry alone and both channels are
\* closed with ErrBadMsg.
C27_Witness ==
    /\ op = "Tfind" /\ pc = "done" /\ Len(inHist) = 2
    /\ inHist[1].t = "dir" /\ inHist[2].t = "bytes"
    /\ got = <<inHist[1]>>
    /\ rc.closed /\ rc.err = ErrBadMsg /\ cin.closed /\ cin.err = ErrBadMsg

C30_OneWatcherPerHandle ==
    \A h \in Handles :
        Cardinality({m \in Muxes : wpc[m] \in {"hup", "evict"} /\ wst[m].h = h}) <= 1

\* C31: a hangup watcher is started for a mux only by the Redial that opened
\* and published that mux, at its successful return, and that return starts
\* the watcher of its mux, which had none; a watcher that has left its wait
\* is never started again; a Redial that returns an error leaves the mux it
\* opened, if any, without a watcher.
C31_OneWatcherPerPublishedMux ==
    [][/\ \A m \in Muxes :
            /\ (wpc[m] = "none" /\ wpc'[m] # "none") =>
                  /\ wpc'[m] = "hup"
                  /\ \E t \in Threads :
                        /\ tpc[t] = "redial.install" /\ tpc'[t] = "idle"
                        /\ th[t].m = m /\ hs[th[t].h].m = m
                        /\ res'.err = NoErr /\ res'.h = th[t].h
                        /\ wst'[m].h = th[t].h
            /\ (wpc[m] = "hup") => wpc'[m] \in {"hup", "evict"}
            /\ (wpc[m] = "evict") => wpc'[m] \in {"evict", "done"}
            /\ (wpc[m] = "done") => wpc'[m] = "done"
       /\ \A t \in Threads :
            /\ (tpc[t] = "redial.install" /\ tpc'[t] = "idle") =>
                  /\ mux[th[t].m] # "none"
                  /\ wpc[th[t].m] = "none" /\ wpc'[th[t].m] = "hup"
                  /\ \A m \in Muxes \ {th[t].m} : wpc'[m] = wpc[m]
            /\ (tpc[t] \in {"redial.connect", "redial.trees"} /\ tpc'[t] = "idle") =>
                  /\ res'.err # NoErr
                  /\ wpc' = wpc
                  /\ (nmux' # nmux) => wpc[nmux'] = "none"
                  /\ (th[t].m # 0) => wpc[th[t].m] = "none"]_vars

\* C31 witness: one mux has its watcher waiting for the hangup while another
\* mux, opened by a Redial that failed and closed it, has no watcher.
C31_Witness ==
    \E m1, m2 \in Muxes :
        /\ wpc[m1] = "hup" /\ mux[m1] = "open"
        /\ mux[m2] = "down" /\ wpc[m2] = "none"
        /\ \A t \in Threads : tpc[t] = "idle"

\* C32: an operation can start on a handle whose mutex a Redial holds: it
\* is not blocked, it leaves the mutex and the rest of the handle as they
\* are, and the call it allocates is on the mux the handle's reference
\* names at that moment.
C32_OperationsIgnoreMutex ==
    /\ [](\A h \in Handles :
            (~crashed /\ h \in returned /\ hs[h].lock # 0 /\ hs[h].m # 0)
                => ENABLED (Request /\ res'.kind = "Request" /\ res'.h = h))
    /\ [][res'.kind = "Request" =>
            /\ hs' = hs /\ tpc' = tpc /\ mux' = mux
            /\ res'.m = hs[res'.h].m
            /\ res'.up = (mux[res'.m] = "open")]_vars

\* C32 witness: an operation has just started on a handle while a Redial,
\* inside tree discovery, holds the handle's mutex; it goes to the mux that
\* Redial has published for the discovery.
C32_Witness ==
    /\ res.kind = "Request"
    /\ hs[res.h].lock # 0
    /\ \E t \in Threads : tpc[t] = "redial.trees" /\ th[t].h = res.h /\ th[t].m = res.m

\* the task x waits for, or is about to take, the mutex of handle h
WaitsHandleMutex(x, h) ==
    \/ x \in Threads /\ tpc[x] = "redial.lock" /\ th[x].h = h
    \/ \E m \in Muxes : x = WId(m) /\ wpc[m] = "hup" /\ wst[m].h = h

\* C33: whoever holds the dial-cache mutex is at the one map access it took
\* the mutex for (the read of dialed, Redial's insert, the watcher's
\* delete), can take that step at once and releases the mutex with it, so
\* it never waits for a channel, the network or a handle mutex while
\* holding it; and no task that holds a handle mutex waits for the
\* dial-cache mutex while its holder waits for that handle mutex.
C33_DialsLockOnlyAroundMap ==
    /\ [](\A t \in Threads :
            (dlk = t /\ ~crashed) =>
                /\ tpc[t] \in {"dial.dialed", "redial.insert"}
                /\ ENABLED (DialedRead(t) \/ RedialInsert(t)))
    /\ [](\A m \in Muxes :
            (dlk = WId(m) /\ ~crashed) =>
                /\ wpc[m] = "evict"
                /\ ENABLED WatcherDelete(m))
    /\ [](\A h \in Handles : dlk # 0 => ~WaitsHandleMutex(dlk, h))
    /\ [][/\ \A t \in Threads :
              (dlk = t /\ tpc'[t] # tpc[t]) => dlk' = 0
          /\ \A m \in Muxes :
              (dlk = WId(m) /\ wpc'[m] # wpc[m]) => dlk' = 0
          /\ (dlk # 0 /\ dlk' # dlk) => dlk' = 0]_vars

\* C33 witness: a Redial that holds its handle's mutex waits for the
\* dial-cache mutex, which a hangup watcher holds for its delete.
C33_Witness ==
    \E t \in Threads, m \in Muxes :
        /\ tpc[t] = "redial.install" /\ hs[th[t].h].lock = t
        /\ dlk = WId(m) /\ wpc[m] = "evict"

\* C34 as stated: whatever the server replies, tree discovery leaves "main"
\* in the set of known trees.
C34_MainAlwaysInserted ==
    (op = "Ttrees" /\ pc \in {"trees.ret", "done"} /\ RequestOut) => <<"main">> \in gt.trees

\* C34: tree discovery puts on the outbound half nothing but one Ttrees
\* request with Fsys "main" and closes the half after it; it adds to the
\* known trees the tree every string reply names, up to the first reply that
\* is not a string; when the replies end without such a reply it inserts
\* "main", whether the inbound half ended with an error or not, and returns
\* that error; at the first reply that is not a string it returns ErrBadMsg
\* at once, "main" not inserted; and Redial returns the error of a failed
\* discovery.
C34_TreeDiscovery ==
    (op = "Ttrees") =>
        LET bad == {i \in 1..Len(inHist) : inHist[i].t # "str"}
            names(n) == {TreeName(inHist[i].v) : i \in 1..n}
        IN /\ cout.buf \in {<<>>, <<TreesReq>>}
           /\ (pc \in {"trees.loop", "trees.end"}) =>
                 /\ cout.buf = <<TreesReq>> /\ cout.closed /\ cout.err = "nil"
                 /\ gt.ret = "none"
           /\ (pc \in {"trees.ret", "done"} /\ RequestOut) =>
                 /\ cout.closed /\ cout.err = "nil"
                 /\ cin.closed
                 /\ \E known \in KnownBefore :
                       IF gt.ret = ErrBadMsg
                       THEN /\ bad # {}
                            /\ \E k \in bad :
                                  /\ \A j \in bad : k <= j
                                  /\ gt.trees = known \cup names(k - 1)
                       ELSE /\ bad = {}
                            /\ gt.trees = known \cup names(Len(inHist)) \cup {<<"main">>}
                            /\ gt.ret = cin.err
                            /\ cin.buf = <<>>
           /\ (pc \in {"trees.ret", "done"} /\ ~RequestOut) =>
                 /\ gt.trees \in KnownBefore /\ gt.ret = "i/o error"
           /\ (pc = "done") =>
                 gt.redial = IF gt.ret = "nil" THEN "continues" ELSE gt.ret

\* C34 witness: a discovery on a handle with no known trees has ended with
\* ErrBadMsg after a string reply and a directory entry: the set holds the
\* named tree but not "main", and Redial returns ErrBadMsg.
C34_Witness ==
    /\ op = "Ttrees" /\ pc = "done"
    /\ Len(inHist) = 2 /\ inHist[1] = Msg("str", 1) /\ inHist[2].t = "dir"
    /\ gt.trees = {<<"work">>}
    /\ gt.ret = ErrBadMsg /\ gt.redial = ErrBadMsg

\* C35: no close-wait signal is closed more than once, and a running
\* watcher holds a signal that was open when the watcher was started: one
\* nobody has closed while the watcher has not, and closed once when it has.
C35_CloseWaitClosedOnce ==
    /\ \A c \in Cws : cw[c] <= 1
    /\ \A m \in Muxes : (wpc[m] \in {"hup", "evict"}) => cw[wst[m].closewc] = 0

\* C36: a cache entry is removed only by the watcher of the mux it was
\* installed for: when an address loses its entry, the step is the delete
\* of the watcher that the Redial which installed the entry started, the
\* last one started for the entry's handle.
C36_WatcherRemovesOwnEntry ==
    [][\A a \in RAddrs :
          (dials[a] # 0 /\ dials'[a] = 0) =>
              \E m \in Muxes :
                  /\ wpc[m] = "evict" /\ wpc'[m] = "done"
                  /\ wst[m].h = dials[a]
                  /\ \A n \in Muxes :
                        (wpc[n] # "none" /\ wst[n].h = dials[a]) => n <= m]_vars

\* C37: no call on a handle that a successful Dial returned dereferences a
\* null mux reference: the program never dies of fs.m.Close() on a handle
\* whose fs.m is nil.
C37_NoNullMuxDereference ==
    ~crashed /\ (res.kind = "Close" => hs[res.h].m # 0)

\* C38: a handle made by Fsys agrees with the handle it was copied from
\* whenever no Redial holds the original: if the original is marked closed
\* so is the copy, and if the original is open the copy's mux reference is
\* the original's, so that its operations go to the mux of the original's
\* last successful Redial.
C38_CopyFollowsOriginal ==
    \A k \in Copies :
        LET o == hs[k].tm
        IN (hs[o] # NoFs /\ hs[o].lock = 0) =>
              /\ hs[o].closed => hs[k].closed
              /\ ~hs[o].closed => hs[k].m = hs[o].m

\* C39: the task of Stat, Wstat, Remove, RemoveAll, Move, Link and Put that
\* holds its reply can always take its last step, whether the caller has
\* received from the result channel or not; and a task that waits for its
\* reply while the inbound half has a message or is closed terminates,
\* with no step of the caller needed.
C39_ReplyNeverBlocks ==
    LET unary == {"Tstat", "Twstat", "Tremove", "Tremoveall", "Tmove", "Tlink", "Tput"}
    IN /\ [](op \in unary /\ pc \in {"dircall.reply", "errcall.reply", "put.reply"}
               => ENABLED (DircallReply \/ ErrcallReply \/ PutReply))
       /\ (op \in unary /\ pc \in {"dircall.recv", "errcall.recv", "put.recv"}
              /\ CanRecv(cin))
            ~> (pc = "done")

\* C39 witness: a Put has ended with its directory entry published and the
\* result channel closed, and the caller has received nothing: the entry is
\* still in the channel.
C39_Witness ==
    /\ op = "Tput" /\ pc = "done"
    /\ got = <<>> /\ Len(rc.buf) = 1 /\ IsDir(rc.buf[1])
    /\ rc.closed /\ rc.err = "nil"

\* C40 (as stated): each wrapper runs the wrapped handler exactly when TLS is
\* off, or auth is not enabled, or the "clive" cookie is a two-field value
\* the challenge-response check accepts or a three-field value starting with
\* "totp" that the TOTP check accepts; and both wrappers decide alike.
C40_HandlerIffAuthorized ==
    LET toks == SplitN(au.value, 3)
        authorized ==
            \/ ~au.tls
            \/ ~au.enabled
            \/ /\ au.has
               /\ \/ Len(toks) = 2 /\ <<toks[1], toks[2]>> \in au.cr
                  \/ /\ Len(toks) = 3 /\ toks[1] = <<"totp">>
                     /\ <<toks[2], toks[3]>> \in au.totp
    IN /\ au.http # "none" => (au.http = "fn" <=> authorized)
       /\ au.ws # "none" => (au.ws = "h" <=> authorized)
       /\ (au.http # "none" /\ au.ws # "none") => (au.http = "fn" <=> au.ws = "h")

\* C40: AuthHandler runs the wrapped handler exactly when TLS is off, or auth
\* is not enabled, or the "clive" cookie splits (in at most three fields)
\* into two fields the challenge-response check accepts or into three fields
\* of which the first is "totp" and the other two pass the TOTP check.
\* AuthWebSocketHandler hands the request to the websocket server under
\* exactly the same condition, and the wrapped websocket handler then runs
\* only if checkOrigin accepts the request's origin too. The auth decision
\* of the two wrappers is the same for the same request and auth state.
C40_WrappersAgreeOnAuth ==
    LET toks == SplitN(au.value, 3)
        authorized ==
            \/ ~au.tls
            \/ ~au.enabled
            \/ /\ au.has
               /\ \/ Len(toks) = 2 /\ <<toks[1], toks[2]>> \in au.cr
                  \/ /\ Len(toks) = 3 /\ toks[1] = <<"totp">>
                     /\ <<toks[2], toks[3]>> \in au.totp
    IN /\ au.http # "none" => (au.http = "fn" <=> authorized)
       /\ au.ws # "none" =>
             /\ au.ws # "403" <=> authorized
             /\ au.ws = "h" <=> (authorized /\ au.origin = "ok")
       /\ (au.http # "none" /\ au.ws # "none") => (au.http = "fn" <=> au.ws # "403")

\* C40 witness: with TLS and auth on, a request with the cookie "totp:a:a",
\* accepted by the TOTP check, went through both wrappers and reached both
\* wrapped handlers.
C40_Witness ==
    /\ au.tls /\ au.enabled /\ au.has
    /\ au.value = <<"totp", ":", "a", ":", "a">>
    /\ au.http = "fn" /\ au.ws = "h"

====
